---- MODULE Spec2Model ----
(***************************************************************************)
(* Autopay agent (x402): the payment orchestration core of the backend.    *)
(*                                                                         *)
(* The backend is a single Node.js runtime: every service function is an   *)
(* async function, and control can change hands only at an `await`.  Each  *)
(* action below is the code that runs from one await to the next: it       *)
(* performs the database / RPC call whose result is awaited, together     *)
(* with the synchronous code that follows it.  A database call is one      *)
(* atomic statement of the store.  A call in flight is a record of         *)
(* `procs`: the operation, its arguments, its position (pc) and what it    *)
(* has read so far.                                                        *)
(***************************************************************************)
EXTENDS Integers, Sequences, FiniteSets, TLC

(* ---- bounds of the model ---- *)
NumProcs == 2        \* calls that can be in flight at the same time
MaxCalls == 3        \* calls started in one behaviour
MaxTime == 2         \* clock ticks
MaxSigLimit == 1     \* largest maxSignatures given to issueSession

\* a row, a transfer and a hash each take a call to make, so MaxCalls of each
\* are all a behaviour can use
Procs == 1..NumProcs
ReqIds == 1..MaxCalls
SessIds == 1..MaxCalls
Endpoints == {"market", "knowledge"}
\* txHash values: chain signatures (base58) and synthetic hashes (hex of 32
\* random bytes) are strings of different shapes, hence disjoint sets.
Signatures == {<<"sig", n>> : n \in 1..MaxCalls}
SynthHashes == {<<"syn", n>> : n \in 1..MaxCalls}
NoHash == <<>>
Readings == {"OK", "LOW", "ERROR"}

VARIABLES
  requests,         \* AgentRequest table: id -> row (status "NONE": no such row)
  payments,         \* Payment table, in insert order; the id is the index;
                    \* confirmedAt is "null" or "set" (a timestamp)
  sessions,         \* Session table: id -> row (status "NONE": no such row)
  systemState,      \* SystemState singleton (id = 1)
  snapshots,        \* BalanceSnapshot table: statuses in insert order
  ledger,           \* LedgerEvent table, in insert order
  events,           \* payment-status events given to emitEvent, in order
  chain,            \* transfers sent with sendRawTransaction, in order, each
                    \* with what held at the instant it was sent
  now,              \* the clock (new Date())
  signerConfigured, \* env.PHANTOM_SESSION_PRIVATE_KEY decodes to a keypair
  tasks,            \* AutonomyTask table: endpoint -> row (status "NONE": no
                    \* such row)
  procs,            \* the calls in flight
  calls             \* number of calls started

vars == <<requests, payments, sessions, systemState, snapshots, ledger, events,
          chain, now, signerConfigured, tasks, procs, calls>>

dbVars == <<requests, payments, sessions, systemState, snapshots, ledger,
            events, chain>>

(* ---- rows ---- *)
NoRequest == [status |-> "NONE", endpoint |-> "", paymentHash |-> NoHash, responseData |-> ""]
NoSession == [status |-> "NONE", signaturesUsed |-> 0, maxSignatures |-> 0, expiresAt |-> 0]
\* a nested call keeps the calling function in `caller` and the place where
\* it goes on in `then`; `task`, `score`, `at` and `fails` are the task, the
\* score, the time and the failureCount a scheduler tick has read
IdleProc == [op |-> "", pc |-> "idle", req |-> 0, sess |-> 0, arg |-> "", sig |-> NoHash,
             pay |-> 0, cont |-> "", stamp |-> FALSE, res |-> "", err |-> "", status |-> 0, reason |-> "",
             caller |-> "", then |-> "", task |-> "", score |-> 0, at |-> 0, fails |-> 0]

\* no time (a null DATETIME), no score (a null REAL)
NoTime == 0 - 1

NoTask == [status |-> "NONE", valueScore |-> 0, cost |-> 0, freshnessSeconds |-> 0,
           backoffSeconds |-> 0, lastScore |-> NoTime, lastRunAt |-> NoTime,
           lastSuccessAt |-> NoTime, failureCount |-> 0, nextRunAt |-> NoTime,
           lockedAt |-> NoTime, lastError |-> ""]

NoTasks == [e \in Endpoints |-> NoTask]

\* a LedgerEvent row; of the metadata only what the facilitator callback
\* writes is kept (bodyHash, or status and reason), <<>> elsewhere
LedgerEntryWith(category, event, requestId, paymentId, txHash, metadata) ==
  [category |-> category, event |-> event, requestId |-> requestId,
   paymentId |-> paymentId, txHash |-> txHash, metadata |-> metadata]

LedgerEntry(category, event, requestId, paymentId, txHash) ==
  LedgerEntryWith(category, event, requestId, paymentId, txHash, <<>>)

\* the row replaces the newest one instead of being added
InsertOverLast(rows, row) ==
  IF rows = <<>> THEN <<row>> ELSE [rows EXCEPT ![Len(rows)] = row]

\* prisma.ledgerEvent.create
InsertRow(rows, row) == Append(rows, row)

\* appendLedgerEntry: one insert into LedgerEvent
appendLedgerEntry(category, event, requestId, paymentId, txHash) ==
  ledger' = InsertRow(ledger, LedgerEntry(category, event, requestId, paymentId, txHash))

(* ---- the calls ---- *)
Idle(p) == procs[p].pc = "idle"

\* a call is made: the caller's record starts from scratch
Begin(p, op, pc, fields) ==
  /\ calls' = calls + 1
  /\ procs' = [procs EXCEPT ![p] = [f \in DOMAIN IdleProc |->
                 IF f \in DOMAIN fields THEN fields[f]
                 ELSE IF f = "op" THEN op
                 ELSE IF f = "pc" THEN pc
                 ELSE IdleProc[f]]]

\* a new call takes the first free slot (the slots are alike)
CanCall(p) == Idle(p) /\ calls < MaxCalls /\ \A q \in Procs : q < p => ~Idle(q)

Goto(p, pc) == procs' = [procs EXCEPT ![p].pc = pc]

\* a call that is over, its outcome not yet handed to the caller
Ended(p, res, err, status, reason) ==
  [procs[p] EXCEPT !.pc = "done", !.res = res, !.err = err, !.status = status,
                   !.reason = reason]

\* the call returns `res`
Return(p, res) == procs' = [procs EXCEPT ![p] = Ended(p, res, "", 0, "")]

\* the call throws: `err` names the error, `status` is its HTTP status (0: none)
Throw(p, err, status, reason) ==
  procs' = [procs EXCEPT ![p] = Ended(p, "error", err, status, reason)]

\* the outcome is handed to the caller (the route handler answers)
respond(p) ==
  /\ procs[p].pc = "done" /\ procs[p].caller = ""
  /\ procs' = [procs EXCEPT ![p] = IdleProc]
  /\ UNCHANGED <<requests, payments, sessions, systemState, snapshots, ledger,
                 events, chain, now, signerConfigured, tasks, calls>>

Init ==
  /\ requests = [r \in ReqIds |-> NoRequest]
  /\ payments = <<>>
  /\ sessions = [s \in SessIds |-> NoSession]
  /\ systemState = [paymentsPaused |-> FALSE, pauseReason |-> ""]
  /\ snapshots = <<>>
  /\ ledger = <<>>
  /\ events = <<>>
  /\ chain = <<>>
  /\ now = 0
  /\ signerConfigured \in BOOLEAN
  /\ tasks = NoTasks
  /\ procs = [p \in Procs |-> IdleProc]
  /\ calls = 0

\* time passes
Tick ==
  /\ now < MaxTime
  /\ now' = now + 1
  /\ UNCHANGED <<dbVars, signerConfigured, tasks, procs, calls>>

(***************************************************************************)
(* sessionService                                                          *)
(***************************************************************************)
SessionTTLs == {1}

\* prisma.session.findUnique / update({ where: { id } }) find a row
SessionExists(s) == sessions[s].status # "NONE"

\* the id prisma gives the next Session row
FreshSessionId(s) == ~SessionExists(s) /\ \A t \in SessIds : t < s => SessionExists(t)

\* the session ids a caller can name: those of the rows, and one of no row
\* (ids of no row are all alike)
SessionArgs == {s \in SessIds : SessionExists(s) \/ FreshSessionId(s)}

issueSession(p) ==
  /\ CanCall(p)
  /\ \E s \in SessIds, max \in 1..MaxSigLimit, ttl \in SessionTTLs :
       /\ FreshSessionId(s)
       /\ sessions' = [sessions EXCEPT ![s] =
            [status |-> "ACTIVE", signaturesUsed |-> 0, maxSignatures |-> max,
             expiresAt |-> now + ttl]]
       /\ Begin(p, "issueSession", "issueLedger", [sess |-> s])
  /\ UNCHANGED <<requests, payments, systemState, snapshots, ledger, events,
                 chain, now, signerConfigured, tasks>>

issueSessionLedger(p) ==
  /\ procs[p].pc = "issueLedger"
  /\ appendLedgerEntry("SYSTEM", "session-issued", 0, 0, NoHash)
  /\ Return(p, "session")
  /\ UNCHANGED <<requests, payments, sessions, systemState, snapshots, events,
                 chain, now, signerConfigured, tasks, calls>>

\* a check that takes every stored session for an active one
ActiveCheckAlwaysOk(s) == IF SessionExists(s) THEN "ok" ELSE "null"

\* getActiveSession, from the read of the row to the decision on it:
\* "null" (absent or not ACTIVE), "expire", "exhaust" (a write follows) or "ok"
ActiveCheck(s) ==
  IF ~SessionExists(s) THEN "null"
  ELSE IF sessions[s].status # "ACTIVE" THEN "null"
  ELSE IF now > sessions[s].expiresAt THEN "expire"
  ELSE IF sessions[s].signaturesUsed >= sessions[s].maxSignatures THEN "exhaust"
  ELSE "ok"

getActiveSession(p) ==
  /\ CanCall(p)
  /\ \E s \in SessionArgs :
       LET c == ActiveCheck(s) IN
       CASE c = "null" -> Begin(p, "getActiveSession", "done", [sess |-> s, res |-> "null"])
         [] c = "ok" -> Begin(p, "getActiveSession", "done", [sess |-> s, res |-> "session"])
         [] OTHER -> Begin(p, "getActiveSession", "markInactive", [sess |-> s, arg |-> c])
  /\ UNCHANGED <<dbVars, now, signerConfigured, tasks>>

\* the update that follows an expired or exhausted read, in getActiveSession
\* itself and in the getActiveSession call of executePayment
markInactive(p) ==
  /\ procs[p].pc = "markInactive"
  /\ sessions' = [sessions EXCEPT ![procs[p].sess].status =
                    IF procs[p].arg = "expire" THEN "EXPIRED" ELSE "EXHAUSTED"]
  /\ IF procs[p].op = "executePayment"
     THEN Throw(p, "Session expired or invalid", 401, "")
     ELSE Return(p, "null")
  /\ UNCHANGED <<requests, payments, systemState, snapshots, ledger, events,
                 chain, now, signerConfigured, tasks, calls>>

\* the `increment: 1` update of incrementSessionUsage
IncrementUsed(s) == [sessions EXCEPT ![s].signaturesUsed = @ + 1]

\* the session the update returns has reached its limit
LimitReached(row) == row.signaturesUsed >= row.maxSignatures

incrementSessionUsage(p) ==
  /\ CanCall(p)
  /\ \E s \in SessionArgs :
       IF ~SessionExists(s)
       THEN /\ Begin(p, "incrementSessionUsage", "done",
                     [sess |-> s, res |-> "error", err |-> "P2025"])
            /\ UNCHANGED sessions
       ELSE /\ sessions' = IncrementUsed(s)
            /\ IF LimitReached(sessions'[s])
               THEN Begin(p, "incrementSessionUsage", "markExhausted", [sess |-> s])
               ELSE Begin(p, "incrementSessionUsage", "done", [sess |-> s, res |-> "session"])
  /\ UNCHANGED <<requests, payments, systemState, snapshots, ledger, events,
                 chain, now, signerConfigured, tasks>>

\* the second update of incrementSessionUsage, standalone and in executePayment
markExhausted(p) ==
  /\ procs[p].pc = "markExhausted"
  /\ sessions' = [sessions EXCEPT ![procs[p].sess].status = "EXHAUSTED"]
  /\ IF procs[p].op = "executePayment"
     THEN Goto(p, "getBalance")
     ELSE Return(p, "session")
  /\ UNCHANGED <<requests, payments, systemState, snapshots, ledger, events,
                 chain, now, signerConfigured, tasks, calls>>

refreshSession(p) ==
  /\ CanCall(p)
  /\ \E s \in SessionArgs, ttl \in SessionTTLs :
       IF ~SessionExists(s)
       THEN /\ Begin(p, "refreshSession", "done",
                     [sess |-> s, res |-> "error", err |-> "P2025"])
            /\ UNCHANGED sessions
       ELSE /\ sessions' = [sessions EXCEPT ![s].expiresAt = now + ttl,
                                            ![s].status = "ACTIVE"]
            /\ Begin(p, "refreshSession", "refreshLedger", [sess |-> s])
  /\ UNCHANGED <<requests, payments, systemState, snapshots, ledger, events,
                 chain, now, signerConfigured, tasks>>

refreshSessionLedger(p) ==
  /\ procs[p].pc = "refreshLedger"
  /\ appendLedgerEntry("SYSTEM", "session-refreshed", 0, 0, NoHash)
  /\ Return(p, "session")
  /\ UNCHANGED <<requests, payments, sessions, systemState, snapshots, events,
                 chain, now, signerConfigured, tasks, calls>>

revokeSession(p) ==
  /\ CanCall(p)
  /\ \E s \in SessionArgs :
       IF ~SessionExists(s)
       THEN /\ Begin(p, "revokeSession", "done",
                     [sess |-> s, res |-> "error", err |-> "P2025"])
            /\ UNCHANGED sessions
       ELSE /\ sessions' = [sessions EXCEPT ![s].status = "REVOKED"]
            /\ Begin(p, "revokeSession", "revokeLedger", [sess |-> s])
  /\ UNCHANGED <<requests, payments, systemState, snapshots, ledger, events,
                 chain, now, signerConfigured, tasks>>

revokeSessionLedger(p) ==
  /\ procs[p].pc = "revokeLedger"
  /\ appendLedgerEntry("SYSTEM", "session-revoked", 0, 0, NoHash)
  /\ Return(p, "session")
  /\ UNCHANGED <<requests, payments, sessions, systemState, snapshots, events,
                 chain, now, signerConfigured, tasks, calls>>

SessionNext ==
  \/ Tick
  \/ \E p \in Procs :
       \/ issueSession(p) \/ issueSessionLedger(p)
       \/ getActiveSession(p) \/ markInactive(p)
       \/ incrementSessionUsage(p) \/ markExhausted(p)
       \/ refreshSession(p) \/ refreshSessionLedger(p)
       \/ revokeSession(p) \/ revokeSessionLedger(p)
       \/ respond(p)

SpecSession == Init /\ [][SessionNext]_vars

(***************************************************************************)
(* agentService: createOrGetRequest, markRequestFailed                     *)
(***************************************************************************)
RequestExists(r) == requests[r].status # "NONE"

\* the id prisma gives the next AgentRequest row
FreshRequestId(r) == ~RequestExists(r) /\ \A q \in ReqIds : q < r => RequestExists(q)

\* createOrGetRequest(endpoint) without an id: nothing is read, the first
\* await is the create
\* the request ids a caller can name: those of the rows, and one of no row
RequestArgs == {r \in ReqIds : RequestExists(r) \/ FreshRequestId(r)}

createRequest(p) ==
  /\ CanCall(p)
  /\ \E r \in ReqIds, e \in Endpoints :
       /\ FreshRequestId(r)
       /\ requests' = [requests EXCEPT ![r] =
            [status |-> "PAYMENT_REQUIRED", endpoint |-> e, paymentHash |-> NoHash,
             responseData |-> ""]]
       /\ Begin(p, "createOrGetRequest", "paymentRequiredLedger", [req |-> r, arg |-> e])
  /\ UNCHANGED <<payments, sessions, systemState, snapshots, ledger, events,
                 chain, now, signerConfigured, tasks>>

\* createOrGetRequest(endpoint, existingRequestId): the findUnique and the
\* dispatch on the row it returns
createOrGetRequest(p) ==
  /\ CanCall(p)
  /\ \E r \in RequestArgs, e \in Endpoints :
       LET row == requests[r] IN
       IF ~RequestExists(r)
       THEN \* no such row: a new request is created next
            Begin(p, "createOrGetRequest", "create", [req |-> 0, arg |-> e])
       ELSE IF row.status = "FULFILLED" /\ row.responseData # ""
       THEN Begin(p, "createOrGetRequest", "done", [req |-> r, arg |-> e, res |-> "FULFILLED"])
       ELSE IF row.status = "PAID"
       THEN Begin(p, "createOrGetRequest", "fulfil", [req |-> r, arg |-> e])
       ELSE IF row.status = "FAILED"
       THEN Begin(p, "createOrGetRequest", "done", [req |-> r, arg |-> e, res |-> "FAILED"])
       ELSE Begin(p, "createOrGetRequest", "paymentRequiredLedger", [req |-> r, arg |-> e])
  /\ UNCHANGED <<dbVars, now, signerConfigured, tasks>>

\* prisma.agentRequest.create after a findUnique that found nothing
createAfterMiss(p) ==
  /\ procs[p].pc = "create"
  /\ \E r \in ReqIds :
       /\ FreshRequestId(r)
       /\ requests' = [requests EXCEPT ![r] =
            [status |-> "PAYMENT_REQUIRED", endpoint |-> procs[p].arg,
             paymentHash |-> NoHash, responseData |-> ""]]
       /\ procs' = [procs EXCEPT ![p].pc = "paymentRequiredLedger", ![p].req = r]
  /\ UNCHANGED <<payments, sessions, systemState, snapshots, ledger, events,
                 chain, now, signerConfigured, tasks, calls>>

paymentRequiredLedger(p) ==
  /\ procs[p].pc = "paymentRequiredLedger"
  /\ appendLedgerEntry("REQUEST", "payment-required", procs[p].req, 0, NoHash)
  /\ Return(p, "PAYMENT_REQUIRED")
  /\ UNCHANGED <<requests, payments, sessions, systemState, snapshots, events,
                 chain, now, signerConfigured, tasks, calls>>

\* premiumCatalog[endpoint].payload, by its first key
Payload(e) == IF e = "market" THEN "prices" ELSE "insights"

\* the update of a request that was read as PAID: the payload stored is that
\* of the offering of the `endpoint` argument
fulfilRequest(p) ==
  /\ procs[p].pc = "fulfil"
  /\ requests' = [requests EXCEPT ![procs[p].req].status = "FULFILLED",
                                  ![procs[p].req].responseData = Payload(procs[p].arg)]
  /\ Goto(p, "fulfilLedger")
  /\ UNCHANGED <<payments, sessions, systemState, snapshots, ledger, events,
                 chain, now, signerConfigured, tasks, calls>>

fulfilLedger(p) ==
  /\ procs[p].pc = "fulfilLedger"
  /\ appendLedgerEntry("REQUEST", "data-fulfilled", procs[p].req, 0, NoHash)
  /\ Return(p, "FULFILLED")
  /\ UNCHANGED <<requests, payments, sessions, systemState, snapshots, events,
                 chain, now, signerConfigured, tasks, calls>>

\* the update of markRequestFailed: whatever the row's status is
FailRequest(r) == [requests EXCEPT ![r].status = "FAILED"]

markRequestFailed(p) ==
  /\ CanCall(p)
  /\ \E r \in RequestArgs :
       IF ~RequestExists(r)
       THEN /\ Begin(p, "markRequestFailed", "done",
                     [req |-> r, res |-> "error", err |-> "P2025"])
            /\ UNCHANGED requests
       ELSE /\ requests' = FailRequest(r)
            /\ Begin(p, "markRequestFailed", "failedLedger", [req |-> r])
  /\ UNCHANGED <<payments, sessions, systemState, snapshots, ledger, events,
                 chain, now, signerConfigured, tasks>>

failedLedger(p) ==
  /\ procs[p].pc = "failedLedger"
  /\ appendLedgerEntry("REQUEST", "failed", procs[p].req, 0, NoHash)
  /\ Return(p, "ok")
  /\ UNCHANGED <<requests, payments, sessions, systemState, snapshots, events,
                 chain, now, signerConfigured, tasks, calls>>

(***************************************************************************)
(* balanceService                                                          *)
(***************************************************************************)
GateAlwaysOpen == TRUE

\* ensurePaymentsActive throws iff the gate is closed.  ensureSystemState
\* creates the row { paymentsPaused: false } when it is missing, so a missing
\* row and an open gate with no reason read the same everywhere.
PaymentsActive == ~systemState.paymentsPaused

\* where a call goes on once ingestBalanceReading has returned
AfterIngest(p) ==
  IF procs[p].cont = "payment" THEN Goto(p, "confirmedLedger")
  ELSE IF procs[p].cont = "summary" THEN Return(p, procs[p].res)
  ELSE Return(p, "snapshot")

\* ingestBalanceReading: prisma.balanceSnapshot.create, and where the status
\* of the reading leads
AfterSnapshot(reading) ==
  CASE reading = "LOW" -> "pauseRead"
    [] reading = "OK" -> "resumeRead"
    [] OTHER -> "errorLedger"

\* refreshBalanceSnapshot('poller'): connection.getBalance (ERROR stands for
\* a wallet that cannot be resolved or an RPC failure), then the snapshot row
\* of ingestBalanceReading
refreshBalanceSnapshot(p) ==
  /\ CanCall(p)
  /\ \E reading \in Readings :
       /\ snapshots' = Append(snapshots, reading)
       /\ Begin(p, "refreshBalanceSnapshot", AfterSnapshot(reading), [arg |-> reading])
  /\ UNCHANGED <<requests, payments, sessions, systemState, ledger, events,
                 chain, now, signerConfigured, tasks>>

\* ensurePaymentsPaused: findUnique, return at once when already paused
pauseRead(p) ==
  /\ procs[p].pc = "pauseRead"
  /\ Goto(p, IF systemState.paymentsPaused THEN "lowLedger" ELSE "pauseWrite")
  /\ UNCHANGED <<dbVars, now, signerConfigured, tasks, calls>>

\* ensurePaymentsPaused: the upsert
pauseWrite(p) ==
  /\ procs[p].pc = "pauseWrite"
  /\ systemState' = [paymentsPaused |-> TRUE, pauseReason |-> "LOW_BALANCE"]
  /\ Goto(p, "pausedLedger")
  /\ UNCHANGED <<requests, payments, sessions, snapshots, ledger, events,
                 chain, now, signerConfigured, tasks, calls>>

pausedLedger(p) ==
  /\ procs[p].pc = "pausedLedger"
  /\ appendLedgerEntry("BALANCE", "payments-paused", 0, 0, NoHash)
  /\ Goto(p, "lowLedger")
  /\ UNCHANGED <<requests, payments, sessions, systemState, snapshots, events,
                 chain, now, signerConfigured, tasks, calls>>

lowLedger(p) ==
  /\ procs[p].pc = "lowLedger"
  /\ appendLedgerEntry("BALANCE", "low-balance", 0, 0, NoHash)
  /\ AfterIngest(p)
  /\ UNCHANGED <<requests, payments, sessions, systemState, snapshots, events,
                 chain, now, signerConfigured, tasks, calls>>

\* maybeResumePayments: ensureSystemState, return unless paused for the reason
resumeRead(p) ==
  /\ procs[p].pc = "resumeRead"
  /\ IF ~systemState.paymentsPaused \/ systemState.pauseReason # "LOW_BALANCE"
     THEN AfterIngest(p)
     ELSE Goto(p, "resumeWrite")
  /\ UNCHANGED <<dbVars, now, signerConfigured, tasks, calls>>

\* a resume that leaves the reason in place
ResumedKeepingReason == [paymentsPaused |-> FALSE, pauseReason |-> systemState.pauseReason]

\* data of the update: { paymentsPaused: false, pauseReason: null }
Resumed == [paymentsPaused |-> FALSE, pauseReason |-> ""]

\* maybeResumePayments: the update
resumeWrite(p) ==
  /\ procs[p].pc = "resumeWrite"
  /\ systemState' = Resumed
  /\ Goto(p, "resumedLedger")
  /\ UNCHANGED <<requests, payments, sessions, snapshots, ledger, events,
                 chain, now, signerConfigured, tasks, calls>>

resumedLedger(p) ==
  /\ procs[p].pc = "resumedLedger"
  /\ appendLedgerEntry("BALANCE", "payments-resumed", 0, 0, NoHash)
  /\ AfterIngest(p)
  /\ UNCHANGED <<requests, payments, sessions, systemState, snapshots, events,
                 chain, now, signerConfigured, tasks, calls>>

\* status ERROR: ensureSystemState (a read), then the balance-error entry
errorLedger(p) ==
  /\ procs[p].pc = "errorLedger"
  /\ appendLedgerEntry("BALANCE", "balance-error", 0, 0, NoHash)
  /\ AfterIngest(p)
  /\ UNCHANGED <<requests, payments, sessions, systemState, snapshots, events,
                 chain, now, signerConfigured, tasks, calls>>

IngestStep(p) ==
  \/ pauseRead(p) \/ pauseWrite(p) \/ pausedLedger(p) \/ lowLedger(p)
  \/ resumeRead(p) \/ resumeWrite(p) \/ resumedLedger(p)
  \/ errorLedger(p)

BalanceNext == \E p \in Procs : refreshBalanceSnapshot(p) \/ IngestStep(p) \/ respond(p)

SpecBalance == Init /\ [][BalanceNext]_vars

(***************************************************************************)
(* paymentService: executePayment                                          *)
(***************************************************************************)
PaymentIds == 1..Len(payments)

HashTaken(h) == \E i \in PaymentIds : payments[i].txHash = h

InsertWithoutUniqueIndex(h) == TRUE

\* prisma.payment.create under the unique index Payment_txHash_key: the row is
\* inserted unless a row with that txHash exists (then the create throws P2002)
CanInsertPayment(h) == ~HashTaken(h)

\* a row that drops the failure code
PaymentRowWithoutCode(r, h, status, confirmedAt, failureCode) ==
  [requestId |-> r, txHash |-> h, status |-> status, confirmedAt |-> confirmedAt,
   failureCode |-> ""]

PaymentRow(r, h, status, confirmedAt, failureCode) ==
  [requestId |-> r, txHash |-> h, status |-> status, confirmedAt |-> confirmedAt,
   failureCode |-> failureCode]

\* a value of a random or chain-made hash: a new one, or one met before
\* (the new one is the first unused, all unused ones being alike)
FirstUnused(hashes, used) ==
  {h \in hashes \ used : \A g \in hashes \ used : h[2] <= g[2]}

ChainSignatures == {chain[i].sig : i \in 1..Len(chain)}

\* generateTxHash(): 32 random bytes
generateTxHash ==
  FirstUnused(SynthHashes, {payments[i].txHash : i \in PaymentIds})
    \cup ({payments[i].txHash : i \in PaymentIds} \cap SynthHashes)

PaymentStatusEvent(r, pay, h, status) ==
  [type |-> "payment-status", requestId |-> r, paymentId |-> pay, txHash |-> h,
   status |-> status]

\* ensurePaymentsActive(), the first await of executePayment
executePayment(p) ==
  /\ CanCall(p)
  /\ \E r \in RequestArgs, s \in SessionArgs \cup {0} :
       IF PaymentsActive
       THEN Begin(p, "executePayment", "loadRequest", [req |-> r, sess |-> s])
       ELSE Begin(p, "executePayment", "done",
                  [req |-> r, sess |-> s, res |-> "error",
                   err |-> "Payments temporarily paused", status |-> 503,
                   reason |-> systemState.pauseReason])
  /\ UNCHANGED <<dbVars, now, signerConfigured, tasks>>

\* findUnique of the request, the status checks and the signer check
loadRequest(p) ==
  /\ procs[p].pc = "loadRequest"
  /\ LET row == requests[procs[p].req] IN
     IF ~RequestExists(procs[p].req)
     THEN Throw(p, "Request not found", 404, "")
     ELSE IF row.status = "FULFILLED"
     THEN procs' = [procs EXCEPT ![p].pc = "summary", ![p].res = "already-fulfilled",
                                 ![p].sig = row.paymentHash]
     ELSE IF row.status # "PAYMENT_REQUIRED"
     THEN procs' = [procs EXCEPT ![p].pc = "summary", ![p].res = "noop",
                                 ![p].sig = row.paymentHash]
     ELSE IF ~signerConfigured
     THEN Throw(p, "Custodial signer not configured", 500, "")
     ELSE IF procs[p].sess # 0
     THEN Goto(p, "session")
     ELSE Goto(p, "submit")
  /\ UNCHANGED <<dbVars, now, signerConfigured, tasks, calls>>

\* getLatestBalanceValue -> getBalanceSummary: with no snapshot stored it
\* takes one (refreshBalanceSnapshot('bootstrap')) before it answers
balanceSummary(p) ==
  /\ procs[p].pc = "summary"
  /\ IF snapshots # <<>>
     THEN /\ Return(p, procs[p].res)
          /\ UNCHANGED snapshots
     ELSE \E reading \in Readings :
            /\ snapshots' = Append(snapshots, reading)
            /\ procs' = [procs EXCEPT ![p].pc = AfterSnapshot(reading),
                                      ![p].arg = reading, ![p].cont = "summary"]
  /\ UNCHANGED <<requests, payments, sessions, systemState, ledger, events,
                 chain, now, signerConfigured, tasks, calls>>

\* getActiveSession(sessionId) of executePayment: the read
checkSession(p) ==
  /\ procs[p].pc = "session"
  /\ LET c == ActiveCheck(procs[p].sess) IN
     CASE c = "null" -> Throw(p, "Session expired or invalid", 401, "")
       [] c = "ok" -> Goto(p, "submit")
       [] OTHER -> procs' = [procs EXCEPT ![p].pc = "markInactive", ![p].arg = c]
  /\ UNCHANGED <<dbVars, now, signerConfigured, tasks, calls>>

\* what is true of the world at the instant sendRawTransaction is called
Transfer(p, sig, confirmed) ==
  [sig |-> sig, confirmed |-> confirmed, requestId |-> procs[p].req, sessionId |-> procs[p].sess,
   sessionStatus |-> IF procs[p].sess = 0 THEN "" ELSE sessions[procs[p].sess].status,
   sessionActive |-> procs[p].sess = 0 \/ ActiveCheck(procs[p].sess) = "ok",
   paused |-> systemState.paymentsPaused]

\* the signatures sendRawTransaction can answer with: that of a new transfer,
\* or that of a transfer already sent with the same payer, recipient, amount
\* and recent blockhash (the same bytes, hence the same signature)
SendResults(p) ==
  FirstUnused(Signatures, ChainSignatures)
    \cup {chain[i].sig : i \in {j \in 1..Len(chain) :
            requests[chain[j].requestId].endpoint = requests[procs[p].req].endpoint}}

\* lines 68-98: getLatestBlockhash, build, sign, sendRawTransaction and
\* confirmTransaction.  The send can fail (nothing is sent); once the
\* transfer is sent its confirmation can fail or time out.
submitTransfer(p) ==
  /\ procs[p].pc = "submit"
  /\ \/ /\ procs' = [procs EXCEPT ![p].pc = "catchLedger", ![p].err = "send failed"]
        /\ UNCHANGED chain
     \/ \E sig \in SendResults(p), confirmed \in BOOLEAN :
          /\ chain' = Append(chain, Transfer(p, sig, confirmed))
          /\ procs' = IF confirmed
                      THEN [procs EXCEPT ![p].pc = "createPayment", ![p].sig = sig]
                      ELSE [procs EXCEPT ![p].pc = "catchLedger", ![p].sig = sig,
                                         ![p].err = "confirm failed"]
  /\ UNCHANGED <<requests, payments, sessions, systemState, snapshots, ledger,
                 events, now, signerConfigured, tasks, calls>>

\* prisma.payment.create, status CONFIRMED
createPayment(p) ==
  /\ procs[p].pc = "createPayment"
  /\ IF CanInsertPayment(procs[p].sig)
     THEN /\ payments' = Append(payments,
               PaymentRow(procs[p].req, procs[p].sig, "CONFIRMED", "set", ""))
          /\ procs' = [procs EXCEPT ![p].pc = "updateRequest",
                                    ![p].pay = Len(payments) + 1]
     ELSE /\ procs' = [procs EXCEPT ![p].pc = "catchLedger", ![p].err = "P2002"]
          /\ UNCHANGED payments
  /\ UNCHANGED <<requests, sessions, systemState, snapshots, ledger, events,
                 chain, now, signerConfigured, tasks, calls>>

\* an update that sets the status and leaves paymentHash alone
PaidWithoutHash(r, sig) == [requests EXCEPT ![r].status = "PAID"]

\* data: { status: 'PAID', paymentHash: signature }
PaidRequest(r, sig) == [requests EXCEPT ![r].status = "PAID", ![r].paymentHash = sig]

\* prisma.agentRequest.update under the unique index AgentRequest_paymentHash_key
updateRequest(p) ==
  /\ procs[p].pc = "updateRequest"
  /\ IF \E q \in ReqIds : q # procs[p].req /\ requests[q].paymentHash = procs[p].sig
     THEN /\ procs' = [procs EXCEPT ![p].pc = "catchLedger", ![p].err = "P2002"]
          /\ UNCHANGED requests
     ELSE /\ requests' = PaidRequest(procs[p].req, procs[p].sig)
          /\ Goto(p, IF procs[p].sess # 0 THEN "increment" ELSE "getBalance")
  /\ UNCHANGED <<payments, sessions, systemState, snapshots, ledger, events,
                 chain, now, signerConfigured, tasks, calls>>

\* incrementSessionUsage(sessionId) of executePayment: the increment
incrementInPayment(p) ==
  /\ procs[p].pc = "increment"
  /\ sessions' = IncrementUsed(procs[p].sess)
  /\ Goto(p, IF LimitReached(sessions'[procs[p].sess]) THEN "markExhausted"
             ELSE "getBalance")
  /\ UNCHANGED <<requests, payments, systemState, snapshots, ledger, events,
                 chain, now, signerConfigured, tasks, calls>>

\* connection.getBalance(signer.publicKey), then the snapshot row of
\* ingestBalanceReading(balance, 'payment')
getBalance(p) ==
  /\ procs[p].pc = "getBalance"
  /\ \/ \E reading \in {"OK", "LOW"} :
          /\ snapshots' = Append(snapshots, reading)
          /\ procs' = [procs EXCEPT ![p].pc = AfterSnapshot(reading),
                                    ![p].arg = reading, ![p].cont = "payment"]
     \/ /\ procs' = [procs EXCEPT ![p].pc = "catchLedger", ![p].err = "getBalance failed"]
        /\ UNCHANGED snapshots
  /\ UNCHANGED <<requests, payments, sessions, systemState, ledger, events,
                 chain, now, signerConfigured, tasks, calls>>

confirmedLedger(p) ==
  /\ procs[p].pc = "confirmedLedger"
  /\ appendLedgerEntry("PAYMENT", "confirmed", procs[p].req, procs[p].pay, procs[p].sig)
  /\ Goto(p, "facilitatorPost")
  /\ UNCHANGED <<requests, payments, sessions, systemState, snapshots, events,
                 chain, now, signerConfigured, tasks, calls>>

\* submitFacilitatorVerification (facilitatorEnabled() holds with the
\* defaults of env): axios.post and the ledger entry for its outcome.  When
\* the post went through, executePayment emits payment-status and returns;
\* else the error is thrown into the try block of executePayment.
submitFacilitatorVerification(p) ==
  /\ procs[p].pc = "facilitatorPost"
  /\ \/ /\ appendLedgerEntry("PAYMENT", "facilitator-submitted", procs[p].req,
                               procs[p].pay, procs[p].sig)
        /\ events' = Append(events, PaymentStatusEvent(procs[p].req, procs[p].pay,
                                                       procs[p].sig, "CONFIRMED"))
        /\ Return(p, "confirmed")
     \/ /\ appendLedgerEntry("PAYMENT", "facilitator-submit-failed", procs[p].req,
                               procs[p].pay, procs[p].sig)
        /\ procs' = [procs EXCEPT ![p].pc = "catchLedger", ![p].err = "facilitator failed"]
        /\ UNCHANGED events
  /\ UNCHANGED <<requests, payments, sessions, systemState, snapshots,
                 chain, now, signerConfigured, tasks, calls>>

\* catch: the PAYMENT failed entry, its metadata the error message
catchLedger(p) ==
  /\ procs[p].pc = "catchLedger"
  /\ ledger' = InsertRow(ledger, LedgerEntryWith("PAYMENT", "failed", procs[p].req, 0,
                                                 NoHash, <<procs[p].err>>))
  /\ Goto(p, "catchCreate")
  /\ UNCHANGED <<requests, payments, sessions, systemState, snapshots, events,
                 chain, now, signerConfigured, tasks, calls>>

\* catch: the FAILED payment row under generateTxHash(), the event, the rethrow
catchCreate(p) ==
  /\ procs[p].pc = "catchCreate"
  /\ \E h \in generateTxHash :
       IF CanInsertPayment(h)
       THEN /\ payments' = Append(payments,
                 PaymentRow(procs[p].req, h, "FAILED", "null", procs[p].err))
            /\ events' = Append(events, PaymentStatusEvent(procs[p].req,
                                   Len(payments) + 1, h, "FAILED"))
            /\ Throw(p, procs[p].err, 0, "")
       ELSE /\ Throw(p, "P2002", 0, "")
            /\ UNCHANGED <<payments, events>>
  /\ UNCHANGED <<requests, sessions, systemState, snapshots, ledger,
                 chain, now, signerConfigured, tasks, calls>>

PaymentStep(p) ==
  \/ loadRequest(p) \/ balanceSummary(p) \/ checkSession(p)
  \/ submitTransfer(p) \/ createPayment(p)
  \/ updateRequest(p) \/ getBalance(p)
  \/ confirmedLedger(p) \/ submitFacilitatorVerification(p)
  \/ catchLedger(p) \/ catchCreate(p)

(***************************************************************************)
(* paymentController: facilitatorCallbackHandler                           *)
(***************************************************************************)
CallbackReasons == {"", "late"}

\* sha256 of the raw body: one value per body (txHash, status, reason)
BodyHash(h, status, reason) == <<h, status, reason>>

\* a ledger entry of the callback handler, with its metadata
appendCallbackEntry(event, requestId, paymentId, txHash, metadata) ==
  ledger' = InsertRow(ledger, LedgerEntryWith("PAYMENT", event, requestId, paymentId,
                                              txHash, metadata))

\* metadata { status, reason } of the entries written once the body is parsed
CallbackMeta(p) == <<procs[p].arg, procs[p].reason>>

\* the txHash of a callback: that of a stored payment, or an unknown one
CallbackHashes ==
  {payments[i].txHash : i \in PaymentIds}
    \cup FirstUnused(Signatures, {payments[i].txHash : i \in PaymentIds})

PaymentByHash(h) == CHOOSE i \in PaymentIds : payments[i].txHash = h

TargetStatus(status) == IF status = "confirmed" THEN "CONFIRMED" ELSE "FAILED"

DesiredFailureCode(status, reason) == IF status = "confirmed" THEN "" ELSE reason

\* alreadyProcessed: the stored payment is in the target status (and, for
\* FAILED, carries the same failure code)
AlreadyProcessed(row, status, reason) ==
  /\ row.status = TargetStatus(status)
  /\ \/ TargetStatus(status) = "CONFIRMED"
     \/ row.failureCode = DesiredFailureCode(status, reason)

\* env.COINBASE_FACILITATOR_SECRET: unset, or a secret
NoSecret == ""

Secrets == {NoSecret, "secret"}

\* a string is the sequence of its characters; "0" and "f" are hex digits
HexDigit(c) == c \in {"0", "f"}

\* the x-facilitator-signature header: absent or empty (<<>>), a digest, a
\* single digit, a digest followed by another character
SignatureHeaders == {<<>>, <<"0", "f">>, <<"f", "0">>, <<"0">>, <<"0", "f", "z">>}

\* createHmac('sha256', secret).update(body).digest('hex'): a digest of one
\* byte, two hex digits, that depends on the body
Hmac(secret, body) == IF body[2] = "confirmed" THEN <<"0", "f">> ELSE <<"f", "0">>

\* Buffer.from(s, 'hex'): one byte per pair of hex digits, up to the first
\* pair that is not one; a last single digit is dropped
RECURSIVE DecodeHex(_)
DecodeHex(s) ==
  IF Len(s) < 2 \/ ~HexDigit(s[1]) \/ ~HexDigit(s[2]) THEN <<>>
  ELSE <<<<s[1], s[2]>>>> \o DecodeHex(SubSeq(s, 3, Len(s)))

\* crypto.timingSafeEqual: throws a RangeError on buffers of different length
timingSafeEqual(a, b) ==
  IF Len(a) # Len(b) THEN "RangeError" ELSE IF a = b THEN "true" ELSE "false"

\* "true", "false", or "RangeError" when the comparison throws
verifyFacilitatorSignature(secret, signature, body) ==
  IF secret = NoSecret THEN "false"
  ELSE IF signature = <<>> THEN "false"
  ELSE timingSafeEqual(DecodeHex(signature), DecodeHex(Hmac(secret, body)))

\* where the handler goes after verifyFacilitatorSignature
AfterVerify(outcome) ==
  IF outcome = "true" THEN "callbackFind"
  ELSE IF outcome = "false" THEN "callbackInvalid"
  ELSE "callbackRangeError"

\* the handler up to its first await, on a given body, header and secret: the
\* facilitator-callback-received entry, then verifyFacilitatorSignature
callbackReceived(p, h, status, reason, secret, signature) ==
  /\ Begin(p, "facilitatorCallback",
           AfterVerify(verifyFacilitatorSignature(secret, signature,
                                                  <<h, status, reason>>)),
           [sig |-> h, arg |-> status, reason |-> reason])
  /\ appendCallbackEntry("facilitator-callback-received", 0, 0, NoHash,
                         BodyHash(h, status, reason))

facilitatorCallback(p) ==
  /\ CanCall(p)
  /\ \E h \in CallbackHashes, status \in {"confirmed", "rejected"},
        reason \in CallbackReasons, secret \in Secrets,
        signature \in SignatureHeaders :
       callbackReceived(p, h, status, reason, secret, signature)
  /\ UNCHANGED <<requests, payments, sessions, systemState, snapshots, events,
                 chain, now, signerConfigured, tasks>>

\* timingSafeEqual threw: asyncHandler hands the error to the error
\* middleware, which answers 500
callbackRangeError(p) ==
  /\ procs[p].pc = "callbackRangeError"
  /\ Throw(p, "RangeError", 500, "")
  /\ UNCHANGED <<dbVars, now, signerConfigured, tasks, calls>>

callbackInvalid(p) ==
  /\ procs[p].pc = "callbackInvalid"
  /\ appendCallbackEntry("facilitator-callback-invalid-signature", 0, 0, NoHash,
                         BodyHash(procs[p].sig, procs[p].arg, procs[p].reason))
  /\ Throw(p, "Invalid facilitator signature", 401, "")
  /\ UNCHANGED <<requests, payments, sessions, systemState, snapshots, events,
                 chain, now, signerConfigured, tasks, calls>>

\* prisma.payment.findUnique({ txHash }) and the decision taken on the row read
callbackFind(p) ==
  /\ procs[p].pc = "callbackFind"
  /\ IF ~HashTaken(procs[p].sig)
     THEN Goto(p, "callbackMissing")
     ELSE LET i == PaymentByHash(procs[p].sig) IN
          IF AlreadyProcessed(payments[i], procs[p].arg, procs[p].reason)
          THEN procs' = [procs EXCEPT ![p].pc = "callbackDuplicate", ![p].pay = i,
                                      ![p].req = payments[i].requestId]
          ELSE procs' = [procs EXCEPT ![p].pc = "callbackUpdate", ![p].pay = i,
                           ![p].req = payments[i].requestId,
                           ![p].stamp = (procs[p].arg = "confirmed"
                                         /\ payments[i].confirmedAt = "null")]
  /\ UNCHANGED <<dbVars, now, signerConfigured, tasks, calls>>

callbackMissing(p) ==
  /\ procs[p].pc = "callbackMissing"
  /\ appendCallbackEntry("facilitator-callback-payment-missing", 0, 0, NoHash,
                         CallbackMeta(p))
  /\ Throw(p, "Payment not found", 404, "")
  /\ UNCHANGED <<requests, payments, sessions, systemState, snapshots, events,
                 chain, now, signerConfigured, tasks, calls>>

callbackDuplicate(p) ==
  /\ procs[p].pc = "callbackDuplicate"
  /\ appendCallbackEntry("facilitator-callback-duplicate", procs[p].req,
                         procs[p].pay, procs[p].sig, CallbackMeta(p))
  /\ Return(p, "payment")
  /\ UNCHANGED <<requests, payments, sessions, systemState, snapshots, events,
                 chain, now, signerConfigured, tasks, calls>>

\* an update that leaves the failure code in place
UpdatePaymentKeepingCode(i, status, reason, stamp) ==
  [payments EXCEPT ![i].status = TargetStatus(status),
                   ![i].confirmedAt = IF stamp THEN "set" ELSE @]

\* prisma.payment.update({ where: { id }, data: updateData })
UpdatePayment(i, status, reason, stamp) ==
  [payments EXCEPT ![i].status = TargetStatus(status),
                   ![i].failureCode = DesiredFailureCode(status, reason),
                   ![i].confirmedAt = IF stamp THEN "set" ELSE @]

callbackUpdate(p) ==
  /\ procs[p].pc = "callbackUpdate"
  /\ payments' = UpdatePayment(procs[p].pay, procs[p].arg, procs[p].reason, procs[p].stamp)
  /\ Goto(p, "callbackLedger")
  /\ UNCHANGED <<requests, sessions, systemState, snapshots, ledger, events,
                 chain, now, signerConfigured, tasks, calls>>

callbackLedger(p) ==
  /\ procs[p].pc = "callbackLedger"
  /\ appendCallbackEntry("facilitator-callback", procs[p].req, procs[p].pay,
                         procs[p].sig, CallbackMeta(p))
  /\ events' = Append(events, PaymentStatusEvent(procs[p].req, procs[p].pay,
                                                 procs[p].sig, TargetStatus(procs[p].arg)))
  /\ Return(p, "payment")
  /\ UNCHANGED <<requests, payments, sessions, systemState, snapshots,
                 chain, now, signerConfigured, tasks, calls>>

CallbackStep(p) ==
  \/ callbackInvalid(p) \/ callbackRangeError(p) \/ callbackFind(p)
  \/ callbackMissing(p) \/ callbackDuplicate(p) \/ callbackUpdate(p) \/ callbackLedger(p)

(***************************************************************************)
(* the backend: every route of the payment core                            *)
(***************************************************************************)
\* requests and payments: the routes /agent/request, /agent/fail and
\* /payments/execute (a sessionId given to executePayment names no session)
PayNext ==
  \E p \in Procs :
    \/ createRequest(p) \/ createOrGetRequest(p) \/ createAfterMiss(p)
    \/ paymentRequiredLedger(p) \/ fulfilRequest(p) \/ fulfilLedger(p)
    \/ markRequestFailed(p) \/ failedLedger(p)
    \/ executePayment(p) \/ PaymentStep(p) \/ IngestStep(p)
    \/ respond(p)

SpecPay == Init /\ [][PayNext]_vars

\* payments under a session: /sessions/issue, /sessions/:id/revoke,
\* /agent/request without an id, /payments/execute, and the clock
SessionPayNext ==
  \/ Tick
  \/ \E p \in Procs :
       \/ issueSession(p) \/ issueSessionLedger(p)
       \/ revokeSession(p) \/ revokeSessionLedger(p)
       \/ createRequest(p) \/ paymentRequiredLedger(p)
       \/ executePayment(p) \/ PaymentStep(p) \/ IngestStep(p)
       \/ incrementInPayment(p) \/ markInactive(p) \/ markExhausted(p)
       \/ respond(p)

SpecSessionPay == Init /\ [][SessionPayNext]_vars

\* the facilitator's callbacks on the payments of executePayment
CallbackNext ==
  \E p \in Procs :
    \/ createRequest(p) \/ paymentRequiredLedger(p)
    \/ executePayment(p) \/ PaymentStep(p) \/ IngestStep(p)
    \/ facilitatorCallback(p) \/ CallbackStep(p)
    \/ respond(p)

SpecCallback == Init /\ [][CallbackNext]_vars

\* the balance poller beside /agent/request and /payments/execute
GateNext ==
  \E p \in Procs :
    \/ refreshBalanceSnapshot(p) \/ IngestStep(p)
    \/ createRequest(p) \/ paymentRequiredLedger(p)
    \/ executePayment(p) \/ PaymentStep(p)
    \/ respond(p)

SpecGate == Init /\ [][GateNext]_vars

\* the store once a request was created and one executePayment on it is
\* over: confirmed and submitted to the facilitator (paid), or failed after
\* its transfer was sent (both are states SpecCallback reaches)
InitReconcile ==
  /\ \E paid \in BOOLEAN :
       /\ requests = [r \in ReqIds |->
                        IF r # 1 THEN NoRequest
                        ELSE [status |-> IF paid THEN "PAID" ELSE "PAYMENT_REQUIRED",
                              endpoint |-> "market",
                              paymentHash |-> IF paid THEN <<"sig", 1>> ELSE NoHash,
                              responseData |-> ""]]
       /\ payments = IF paid
                     THEN <<PaymentRow(1, <<"sig", 1>>, "CONFIRMED", "set", "")>>
                     ELSE <<PaymentRow(1, <<"syn", 1>>, "FAILED", "null", "confirm failed")>>
       /\ snapshots = IF paid THEN <<"OK">> ELSE <<>>
       /\ ledger = <<LedgerEntry("REQUEST", "payment-required", 1, 0, NoHash)>>
                     \o (IF paid
                         THEN <<LedgerEntry("PAYMENT", "confirmed", 1, 1, <<"sig", 1>>),
                                LedgerEntry("PAYMENT", "facilitator-submitted", 1, 1, <<"sig", 1>>)>>
                         ELSE <<LedgerEntry("PAYMENT", "failed", 1, 0, NoHash)>>)
       /\ events = <<PaymentStatusEvent(1, 1, payments[1].txHash, payments[1].status)>>
       /\ chain = <<[sig |-> <<"sig", 1>>, confirmed |-> paid, requestId |-> 1,
                     sessionId |-> 0, sessionStatus |-> "", sessionActive |-> TRUE,
                     paused |-> FALSE]>>
  /\ sessions = [s \in SessIds |-> NoSession]
  /\ systemState = [paymentsPaused |-> FALSE, pauseReason |-> ""]
  /\ now = 0
  /\ signerConfigured = TRUE
  /\ tasks = NoTasks
  /\ procs = [p \in Procs |-> IdleProc]
  /\ calls = 0

\* the facilitator's callbacks alone, on that store
ReconcileNext == \E p \in Procs : facilitatorCallback(p) \/ CallbackStep(p) \/ respond(p)

SpecReconcile == InitReconcile /\ [][ReconcileNext]_vars

\* the store once a session of one signature was issued and two requests
\* were created (a state SpecSessionPay reaches)
InitExhaust ==
  /\ requests = [r \in ReqIds |->
                   IF r <= 2
                   THEN [status |-> "PAYMENT_REQUIRED", endpoint |-> "market",
                         paymentHash |-> NoHash, responseData |-> ""]
                   ELSE NoRequest]
  /\ payments = <<>>
  /\ sessions = [s \in SessIds |->
                   IF s = 1
                   THEN [status |-> "ACTIVE", signaturesUsed |-> 0, maxSignatures |-> 1,
                         expiresAt |-> 1]
                   ELSE NoSession]
  /\ systemState = [paymentsPaused |-> FALSE, pauseReason |-> ""]
  /\ snapshots = <<>>
  /\ ledger = <<LedgerEntry("SYSTEM", "session-issued", 0, 0, NoHash),
                 LedgerEntry("REQUEST", "payment-required", 1, 0, NoHash),
                 LedgerEntry("REQUEST", "payment-required", 2, 0, NoHash)>>
  /\ events = <<>>
  /\ chain = <<>>
  /\ now = 0
  /\ signerConfigured = TRUE
  /\ tasks = NoTasks
  /\ procs = [p \in Procs |-> IdleProc]
  /\ calls = 0

\* one caller on that store, making its executePayment calls one after the
\* other (each once the call before was answered), the balance poller and
\* the clock
ExhaustNext ==
  \/ Tick
  \/ \E p \in Procs :
       \/ executePayment(p) /\ \A q \in Procs : Idle(q)
       \/ refreshBalanceSnapshot(p) /\ \A q \in Procs : Idle(q)
       \/ PaymentStep(p) \/ IngestStep(p)
       \/ incrementInPayment(p) \/ markInactive(p) \/ markExhausted(p)
       \/ respond(p)

SpecExhaust == InitExhaust /\ [][ExhaustNext]_vars

(***************************************************************************)
(* ledger reads: fetchLedger, queryLedger (GET /ledger), exportLedger       *)
(***************************************************************************)
MaxLedger == 3       \* entries of a small ledger

PageCap == 500       \* fetchLedger: largest page
ExportCap == 5000    \* exportLedger: largest export

Min(a, b) == IF a < b THEN a ELSE b

Max(a, b) == IF a > b THEN a ELSE b

\* a row's id is its position in `ledger`; rows are written in time order
NoCursor == 0

LedgerFilters == {"", "PAYMENT", "REQUEST"}

\* the `where` of fetchLedger: the category, when one is given
Matches(filter, row) == filter = "" \/ row.category = filter

\* findMany({ where, orderBy: { timestamp: 'desc' } }) over the rows 1..top
NewestFirst(filter, top) ==
  LET MatchesRow(i) == Matches(filter, ledger[i])
  IN SelectSeq([k \in 1..top |-> top + 1 - k], MatchesRow)

Take(rows, n) == SubSeq(rows, 1, Min(n, Len(rows)))

\* findMany with { cursor: { id }, skip: 1 }: the rows after the cursor row
FindMany(filter, cursor, n) ==
  Take(NewestFirst(filter, IF cursor = NoCursor THEN Len(ledger) ELSE cursor - 1), n)

\* the cursor handed back: the id of the last record read
LastRecord(records) == records[Len(records)]

fetchLedger(filter, limit, cursor) ==
  LET take == Min(Max(limit, 1), PageCap)
      records == FindMany(filter, cursor, take + 1)
      hasMore == Len(records) > take
  IN [entries |-> Take(records, take),
      nextCursor |-> IF hasMore THEN LastRecord(records) ELSE NoCursor]

QueryLimits == {1, 2, PageCap}

ExportLimits == {1, 2, ExportCap}

\* a client of GET /ledger: first page, no cursor; the entries read so far are
\* kept in `sig`, the cursor in `pay`
queryLedger(p) ==
  /\ CanCall(p)
  /\ \E filter \in LedgerFilters, limit \in QueryLimits :
       Begin(p, "queryLedger", "page", [arg |-> filter, sess |-> limit])
  /\ UNCHANGED <<dbVars, now, signerConfigured, tasks>>

\* one GET /ledger with the cursor of the page before
ledgerPage(p) ==
  /\ procs[p].pc = "page"
  /\ LET page == fetchLedger(procs[p].arg, procs[p].sess, procs[p].pay) IN
       procs' = [procs EXCEPT ![p].sig = procs[p].sig \o page.entries,
                              ![p].pay = page.nextCursor,
                              ![p].pc = IF page.nextCursor = NoCursor
                                        THEN "done" ELSE "page"]
  /\ UNCHANGED <<dbVars, now, signerConfigured, tasks, calls>>

exportLedger(p) ==
  /\ CanCall(p)
  /\ \E filter \in LedgerFilters, limit \in ExportLimits :
       Begin(p, "exportLedger", "export", [arg |-> filter, sess |-> limit])
  /\ UNCHANGED <<dbVars, now, signerConfigured, tasks>>

\* exportLedger: cappedLimit, then one fetchLedger without cursor
exportFetch(p) ==
  /\ procs[p].pc = "export"
  /\ LET cappedLimit == Min(Max(procs[p].sess, 1), ExportCap) IN
       procs' = [procs EXCEPT
                   ![p].sig = fetchLedger(procs[p].arg, cappedLimit, NoCursor).entries,
                   ![p].pc = "done"]
  /\ UNCHANGED <<dbVars, now, signerConfigured, tasks, calls>>

LedgerRows ==
  {LedgerEntry("REQUEST", "payment-required", 1, 0, NoHash),
   LedgerEntry("PAYMENT", "confirmed", 1, 1, <<"sig", 1>>)}

\* a ledger of one entry more than the largest page
BigLedger == [i \in 1..(PageCap + 1) |-> LedgerEntry("PAYMENT", "confirmed", 1, 1, <<"sig", 1>>)]

LedgerContents == UNION {[1..n -> LedgerRows] : n \in 0..MaxLedger} \cup {BigLedger}

\* emitEvent({ type: 'ledger-entry', payload: mapLedgerRecord(created) })
LedgerEntryEvent(row) == [type |-> "ledger-entry", payload |-> row]

RowOf(category) == CHOOSE row \in LedgerRows : row.category = category

\* a call of appendLedgerEntry(entry), step by step; `arg` names the entry
appendEntry(p) ==
  /\ CanCall(p)
  /\ \E row \in LedgerRows :
       Begin(p, "appendLedgerEntry", "create", [arg |-> row.category])
  /\ UNCHANGED <<dbVars, now, signerConfigured, tasks>>

\* await prisma.ledgerEvent.create: the row is inserted, or the insert fails
\* and the error leaves appendLedgerEntry
ledgerCreate(p) ==
  /\ procs[p].pc = "create"
  /\ \/ /\ ledger' = InsertRow(ledger, RowOf(procs[p].arg))
        /\ procs' = [procs EXCEPT ![p].pc = "emit", ![p].pay = Len(ledger) + 1]
     \/ /\ Throw(p, "create failed", 0, "")
        /\ UNCHANGED ledger
  /\ UNCHANGED <<requests, payments, sessions, systemState, snapshots, events,
                 chain, now, signerConfigured, tasks, calls>>

ledgerEmit(p) ==
  /\ procs[p].pc = "emit"
  /\ events' = Append(events, LedgerEntryEvent(ledger[procs[p].pay]))
  /\ Return(p, "ok")
  /\ UNCHANGED <<requests, payments, sessions, systemState, snapshots, ledger,
                 chain, now, signerConfigured, tasks, calls>>

\* a store holding some ledger, nothing in flight
InitLedger ==
  /\ requests = [r \in ReqIds |-> NoRequest]
  /\ payments = <<>>
  /\ sessions = [s \in SessIds |-> NoSession]
  /\ systemState = [paymentsPaused |-> FALSE, pauseReason |-> ""]
  /\ snapshots = <<>>
  /\ ledger \in LedgerContents
  /\ events = <<>>
  /\ chain = <<>>
  /\ now = 0
  /\ signerConfigured = TRUE
  /\ tasks = NoTasks
  /\ procs = [p \in Procs |-> IdleProc]
  /\ calls = 0

\* readers and writers, one call after the other
LedgerNext ==
  \E p \in Procs :
    \/ queryLedger(p) /\ \A q \in Procs : Idle(q)
    \/ exportLedger(p) /\ \A q \in Procs : Idle(q)
    \/ appendEntry(p) /\ \A q \in Procs : Idle(q)
    \/ ledgerPage(p) \/ exportFetch(p) \/ ledgerCreate(p) \/ ledgerEmit(p)
    \/ respond(p)

SpecLedger == InitLedger /\ [][LedgerNext]_vars

(***************************************************************************)
(* schedulerService: runSchedulerTick, executeTask, markSuccess,            *)
(* handleFailure.  Times are in seconds; a score is in 1/10000.             *)
(***************************************************************************)
SchedMaxTime == 240          \* the clock of the scheduler's runs stops here

MaxFailures == 8             \* failure counts given to calculateBackoffSeconds

MinScoreToRun == 5000        \* MIN_SCORE_TO_RUN, 0.5
MaxBackoffSeconds == 900     \* MAX_BACKOFF_SECONDS
SessionMaxSignatures == 3    \* env.SESSION_MAX_SIGNATURES
SessionExpirySeconds == 3600 \* env.PHANTOM_SESSION_EXPIRY_SECONDS

\* taskCatalog; the cost is premiumCatalog[endpoint].amount, in 1/100
ValueScore(e) == IF e = "market" THEN 5 ELSE 2

CostCents(e) == IF e = "market" THEN 5 ELSE 3

FreshnessSeconds(e) == IF e = "market" THEN 120 ELSE 600

BackoffSeconds(e) == IF e = "market" THEN 45 ELSE 120

\* the row ensureTasks creates at time `t`
CreatedTask(e, t) ==
  [status |-> "IDLE", valueScore |-> ValueScore(e), cost |-> CostCents(e),
   freshnessSeconds |-> FreshnessSeconds(e), backoffSeconds |-> BackoffSeconds(e),
   lastScore |-> NoTime, lastRunAt |-> NoTime, lastSuccessAt |-> NoTime,
   failureCount |-> 0, nextRunAt |-> t, lockedAt |-> NoTime, lastError |-> ""]

\* a staleness that shrinks as time passes
StalenessShrinking(task, t) ==
  IF task.lastSuccessAt # NoTime
  THEN Max(1, task.freshnessSeconds - (t - task.lastSuccessAt))
  ELSE task.freshnessSeconds * 2

\* freshnessSeconds of computeTaskScore: the whole seconds since the last
\* success, at least 1; twice the window for a task that never succeeded
Staleness(task, t) ==
  IF task.lastSuccessAt # NoTime
  THEN Max(1, t - task.lastSuccessAt)
  ELSE task.freshnessSeconds * 2

\* Number((n / d).toFixed(4)), in 1/10000
Fixed4(n, d) == (n \div d) * 10000 + (2 * (n % d) * 10000 + d) \div (2 * d)

computeTaskScore(task, t) ==
  IF task.cost <= 0 THEN 0
  ELSE Fixed4(Staleness(task, t) * task.valueScore * 100,
              Max(1, task.freshnessSeconds) * task.cost)

\* a delay that grows by the base at every failure
LinearBackoffSeconds(base, failureCount) ==
  Min(base * Max(1, failureCount), MaxBackoffSeconds)

calculateBackoffSeconds(base, failureCount) ==
  Min(base * 2 ^ Max(0, failureCount - 1), MaxBackoffSeconds)

\* the filter of runSchedulerTick on lockedAt and nextRunAt
Eligible(task, t) ==
  /\ task.status # "NONE"
  /\ task.lockedAt = NoTime
  /\ ~(task.nextRunAt # NoTime /\ task.nextRunAt > t)

\* eligible[0] after the filter on the score and the sort by score: a task of
\* the highest score; findMany has no orderBy and the sort keeps the order of
\* the rows read, so among equal scores it is the row the store gave first
Candidates(t) ==
  LET scored == {e \in Endpoints : /\ Eligible(tasks[e], t)
                                   /\ computeTaskScore(tasks[e], t) >= MinScoreToRun}
  IN {e \in scored : \A f \in scored :
        computeTaskScore(tasks[f], t) <= computeTaskScore(tasks[e], t)}

\* the update of executeTask
RunningTask(task, at, score) ==
  [task EXCEPT !.status = "RUNNING", !.lockedAt = at, !.lastScore = score,
               !.lastRunAt = at, !.lastError = ""]

\* an update of markSuccess that leaves failureCount alone
SucceededKeepingCount(task, e, at, score) ==
  [task EXCEPT !.status = "IDLE", !.lockedAt = NoTime, !.lastScore = score,
               !.lastSuccessAt = at,
               !.nextRunAt = at + Max(1, FreshnessSeconds(e)), !.lastError = ""]

\* the update of markSuccess
SucceededTask(task, e, at, score) ==
  [task EXCEPT !.status = "IDLE", !.lockedAt = NoTime, !.lastScore = score,
               !.lastSuccessAt = at, !.failureCount = 0,
               !.nextRunAt = at + Max(1, FreshnessSeconds(e)), !.lastError = ""]

\* an update of handleFailure that keeps the lock
FailedKeepingLock(task, at, failureCount, message) ==
  [task EXCEPT !.status = "BACKOFF", !.failureCount = failureCount,
               !.nextRunAt = at + calculateBackoffSeconds(task.backoffSeconds, failureCount),
               !.lastError = message]

\* the update of handleFailure
FailedTask(task, at, failureCount, message) ==
  [task EXCEPT !.status = "BACKOFF", !.lockedAt = NoTime,
               !.failureCount = failureCount,
               !.nextRunAt = at + calculateBackoffSeconds(task.backoffSeconds, failureCount),
               !.lastError = message]

\* schedulerSessionId: the session the scheduler issued last (0: none yet);
\* in the scheduler's runs nobody else issues sessions
schedulerSessionId ==
  IF \E s \in SessIds : SessionExists(s)
  THEN CHOOSE s \in SessIds : SessionExists(s) /\ \A t \in SessIds : SessionExists(t) => t <= s
  ELSE 0

\* a function called from within a call: the caller waits for it
Call(p, op, pc, then, fields) ==
  procs' = [procs EXCEPT ![p] = [f \in DOMAIN IdleProc |->
              IF f \in DOMAIN fields THEN fields[f]
              ELSE IF f = "op" THEN op
              ELSE IF f = "pc" THEN pc
              ELSE IF f = "caller" THEN procs[p].op
              ELSE IF f = "then" THEN then
              ELSE IF f \in {"res", "err", "reason"} THEN ""
              ELSE IF f = "status" THEN 0
              ELSE procs[p][f]]]

\* the function called is over: its caller goes on with what it returned or
\* threw (res, err)
resume(p) ==
  /\ procs[p].pc = "done" /\ procs[p].caller # ""
  /\ procs' = [procs EXCEPT ![p].op = procs[p].caller, ![p].caller = "",
                            ![p].pc = procs[p].then, ![p].then = ""]
  /\ UNCHANGED <<dbVars, now, signerConfigured, tasks, calls>>

\* the catch of executeTask takes the error
Caught(p, message) ==
  procs' = [procs EXCEPT ![p].pc = "handleFailure", ![p].err = message]

\* setInterval fires: ensurePaymentsActive, then `now = new Date()`
runSchedulerTick(p) ==
  /\ CanCall(p)
  /\ IF PaymentsActive
     THEN Begin(p, "runSchedulerTick", "findTasks", [at |-> now])
     ELSE Begin(p, "runSchedulerTick", "done",
                [res |-> "error", err |-> "Payments temporarily paused",
                 status |-> 503, reason |-> systemState.pauseReason])
  /\ UNCHANGED <<dbVars, now, signerConfigured, tasks>>

\* prisma.autonomyTask.findMany and the choice of the candidate
findTasks(p) ==
  /\ procs[p].pc = "findTasks"
  /\ IF Candidates(procs[p].at) = {}
     THEN Return(p, "idle")
     ELSE \E e \in Candidates(procs[p].at) :
            procs' = [procs EXCEPT ![p].pc = "lockTask", ![p].task = e,
                        ![p].score = computeTaskScore(tasks[e], procs[p].at),
                        ![p].fails = tasks[e].failureCount]
  /\ UNCHANGED <<dbVars, now, signerConfigured, tasks, calls>>

\* executeTask: the update to RUNNING
lockTask(p) ==
  /\ procs[p].pc = "lockTask"
  /\ tasks' = [tasks EXCEPT ![procs[p].task] =
                 RunningTask(tasks[procs[p].task], procs[p].at, procs[p].score)]
  /\ Goto(p, "taskRequest")
  /\ UNCHANGED <<dbVars, now, signerConfigured, calls>>

\* createOrGetRequest(task.endpoint): the create, which can fail
taskRequest(p) ==
  /\ procs[p].pc = "taskRequest"
  /\ \/ \E r \in ReqIds :
          /\ FreshRequestId(r)
          /\ requests' = [requests EXCEPT ![r] =
               [status |-> "PAYMENT_REQUIRED", endpoint |-> procs[p].task,
                paymentHash |-> NoHash, responseData |-> ""]]
          /\ Call(p, "createOrGetRequest", "paymentRequiredLedger", "afterRequest",
                  [req |-> r, arg |-> procs[p].task])
     \/ /\ Caught(p, "create failed")
        /\ UNCHANGED requests
  /\ UNCHANGED <<payments, sessions, systemState, snapshots, ledger, events,
                 chain, now, signerConfigured, tasks, calls>>

\* executeTask on the outcome of createOrGetRequest, and the read of
\* ensureSchedulerSession (getActiveSession(schedulerSessionId))
afterRequest(p) ==
  /\ procs[p].pc = "afterRequest"
  /\ IF procs[p].err # "" THEN Caught(p, procs[p].err)
     ELSE IF procs[p].res = "FULFILLED" THEN Goto(p, "markSuccess")
     ELSE IF procs[p].res # "PAYMENT_REQUIRED" THEN Caught(p, "Unhandled outcome")
     ELSE IF schedulerSessionId = 0 THEN Goto(p, "issueSchedulerSession")
     ELSE LET c == ActiveCheck(schedulerSessionId) IN
          CASE c = "ok" -> procs' = [procs EXCEPT ![p].pc = "taskPayment",
                                                  ![p].sess = schedulerSessionId]
            [] c = "null" -> Goto(p, "issueSchedulerSession")
            [] OTHER -> Call(p, "getActiveSession", "markInactive",
                             "issueSchedulerSession",
                             [sess |-> schedulerSessionId, arg |-> c])
  /\ UNCHANGED <<dbVars, now, signerConfigured, tasks, calls>>

\* ensureSchedulerSession: issueSession with the limits of env
issueSchedulerSession(p) ==
  /\ procs[p].pc = "issueSchedulerSession"
  /\ \E s \in SessIds :
       /\ FreshSessionId(s)
       /\ sessions' = [sessions EXCEPT ![s] =
            [status |-> "ACTIVE", signaturesUsed |-> 0,
             maxSignatures |-> SessionMaxSignatures,
             expiresAt |-> now + SessionExpirySeconds]]
       /\ Call(p, "issueSession", "issueLedger", "taskPayment", [sess |-> s])
  /\ UNCHANGED <<requests, payments, systemState, snapshots, ledger, events,
                 chain, now, signerConfigured, tasks, calls>>

\* executePayment({ requestId, sessionId }): its gate
taskPayment(p) ==
  /\ procs[p].pc = "taskPayment"
  /\ IF PaymentsActive
     THEN Call(p, "executePayment", "loadRequest", "afterPayment", << >>)
     ELSE Caught(p, "Payments temporarily paused")
  /\ UNCHANGED <<dbVars, now, signerConfigured, tasks, calls>>

\* executeTask on the result of executePayment, then the findUnique of
\* createOrGetRequest(task.endpoint, requestId) and the dispatch on the row;
\* what that call returns is not looked at
afterPayment(p) ==
  /\ procs[p].pc = "afterPayment"
  /\ LET row == requests[procs[p].req] IN
     IF procs[p].err # "" THEN Caught(p, procs[p].err)
     ELSE IF procs[p].res # "confirmed"
     THEN Caught(p, "Payment execution returned status")
     ELSE IF row.status = "FULFILLED" /\ row.responseData # ""
     THEN Goto(p, "markSuccess")
     ELSE IF row.status = "PAID"
     THEN Call(p, "createOrGetRequest", "fulfil", "markSuccess", [arg |-> procs[p].task])
     ELSE IF row.status = "FAILED"
     THEN Goto(p, "markSuccess")
     ELSE Call(p, "createOrGetRequest", "paymentRequiredLedger", "markSuccess",
               [arg |-> procs[p].task])
  /\ UNCHANGED <<dbVars, now, signerConfigured, tasks, calls>>

markSuccess(p) ==
  /\ procs[p].pc = "markSuccess"
  /\ tasks' = [tasks EXCEPT ![procs[p].task] =
                 SucceededTask(tasks[procs[p].task], procs[p].task, procs[p].at,
                               procs[p].score)]
  /\ Goto(p, "successLedger")
  /\ UNCHANGED <<dbVars, now, signerConfigured, calls>>

successLedger(p) ==
  /\ procs[p].pc = "successLedger"
  /\ ledger' = InsertRow(ledger, LedgerEntryWith("AUTONOMY", "task-success", 0, 0, NoHash,
                                                 <<procs[p].task, procs[p].score>>))
  /\ procs' = [procs EXCEPT ![p].pc = "broadcast", ![p].res = "success"]
  /\ UNCHANGED <<requests, payments, sessions, systemState, snapshots, events,
                 chain, now, signerConfigured, tasks, calls>>

\* handleFailure: the update to BACKOFF, from the task as the tick read it
handleFailure(p) ==
  /\ procs[p].pc = "handleFailure"
  /\ tasks' = [tasks EXCEPT ![procs[p].task] =
                 FailedTask(tasks[procs[p].task], procs[p].at, procs[p].fails + 1,
                            procs[p].err)]
  /\ Goto(p, "failureLedger")
  /\ UNCHANGED <<dbVars, now, signerConfigured, calls>>

failureLedger(p) ==
  /\ procs[p].pc = "failureLedger"
  /\ ledger' = InsertRow(ledger, LedgerEntryWith("AUTONOMY", "task-failure", 0, 0, NoHash,
                 <<procs[p].task, procs[p].fails + 1,
                   calculateBackoffSeconds(tasks[procs[p].task].backoffSeconds,
                                           procs[p].fails + 1),
                   procs[p].err>>))
  /\ procs' = [procs EXCEPT ![p].pc = "broadcast", ![p].res = "failure"]
  /\ UNCHANGED <<requests, payments, sessions, systemState, snapshots, events,
                 chain, now, signerConfigured, tasks, calls>>

\* broadcastQueueUpdate: getQueueStatus, then the queue-update event; the
\* tick is over and nothing is thrown
broadcastQueueUpdate(p) ==
  /\ procs[p].pc = "broadcast"
  /\ events' = Append(events, [type |-> "queue-update",
                               tasks |-> [e \in Endpoints |-> tasks[e].status]])
  /\ procs' = [procs EXCEPT ![p] = Ended(p, procs[p].res, "", 0, "")]
  /\ UNCHANGED <<requests, payments, sessions, systemState, snapshots, ledger,
                 chain, now, signerConfigured, tasks, calls>>

SchedulerStep(p) ==
  \/ findTasks(p) \/ lockTask(p) \/ taskRequest(p) \/ afterRequest(p)
  \/ issueSchedulerSession(p) \/ taskPayment(p) \/ afterPayment(p)
  \/ markSuccess(p) \/ successLedger(p) \/ handleFailure(p) \/ failureLedger(p)
  \/ broadcastQueueUpdate(p) \/ resume(p)

\* the seconds that pass between two ticks
TimeSteps == {40, 120}

Elapse ==
  /\ \A q \in Procs : Idle(q)
  /\ \E d \in TimeSteps : now + d <= SchedMaxTime /\ now' = now + d
  /\ UNCHANGED <<dbVars, signerConfigured, tasks, procs, calls>>

\* the store once startScheduler has run ensureTasks, at time 0
InitScheduler ==
  /\ requests = [r \in ReqIds |-> NoRequest]
  /\ payments = <<>>
  /\ sessions = [s \in SessIds |-> NoSession]
  /\ systemState = [paymentsPaused |-> FALSE, pauseReason |-> ""]
  /\ snapshots = <<>>
  /\ ledger = <<>>
  /\ events = <<>>
  /\ chain = <<>>
  /\ now = 0
  /\ signerConfigured = TRUE
  /\ tasks = [e \in Endpoints |-> CreatedTask(e, 0)]
  /\ procs = [p \in Procs |-> IdleProc]
  /\ calls = 0

\* ticks, one after the other, and the calls they make; no balance poller
\* runs, so payments paused by a low reading stay paused, and the scheduler's
\* session neither expires nor is read at its limit
SchedulerNext ==
  \/ Elapse
  \/ \E p \in Procs :
       \/ runSchedulerTick(p) /\ \A q \in Procs : Idle(q)
       \/ SchedulerStep(p)
       \/ paymentRequiredLedger(p) \/ fulfilRequest(p) \/ fulfilLedger(p)
       \/ issueSessionLedger(p)
       \/ loadRequest(p) \/ checkSession(p) \/ submitTransfer(p)
       \/ createPayment(p) \/ updateRequest(p) \/ incrementInPayment(p)
       \/ markExhausted(p) \/ getBalance(p)
       \/ pauseRead(p) \/ pauseWrite(p) \/ pausedLedger(p) \/ lowLedger(p)
       \/ resumeRead(p)
       \/ confirmedLedger(p) \/ submitFacilitatorVerification(p)
       \/ catchLedger(p) \/ catchCreate(p)
       \/ respond(p)

SpecScheduler == InitScheduler /\ [][SchedulerNext]_vars

\* the run p holds the task of endpoint e: it has made the update to RUNNING
\* and has made neither the update of markSuccess nor that of handleFailure
RunsTask(p, e) ==
  /\ procs[p].task = e
  /\ procs[p].pc \notin {"idle", "lockTask", "successLedger", "failureLedger", "broadcast"}
  /\ procs[p].pc = "done" => procs[p].caller # ""

(***************************************************************************)
(* Overlapping ticks: setInterval fires whether or not the tick before is  *)
(* over, and a second replica runs its own interval on the same store.     *)
(***************************************************************************)
MaxTicks == 3                \* ticks fired in a run of overlapping ticks

\* ticks that run together, at one time of the clock, up to the call of
\* executePayment (the payment itself is in SchedulerNext): the request a
\* tick creates, the session it issues, and the failure of a create
OverlapNext ==
  \E p \in Procs :
    \/ runSchedulerTick(p) /\ calls < MaxTicks
    \/ findTasks(p) \/ lockTask(p) \/ taskRequest(p) \/ afterRequest(p)
    \/ issueSchedulerSession(p) \/ taskPayment(p)
    \/ handleFailure(p) \/ failureLedger(p) \/ broadcastQueueUpdate(p)
    \/ resume(p)
    \/ paymentRequiredLedger(p) \/ issueSessionLedger(p)
    \/ respond(p)

SpecOverlap == InitScheduler /\ [][OverlapNext]_vars

(***************************************************************************)
(* A run that dies: the process is killed (a deploy, a crash) while a tick *)
(* is between two awaits.  Nothing of the tick runs after that; the store  *)
(* keeps what the tick wrote.  startScheduler of the next process runs     *)
(* ensureTasks, whose upsert updates neither status nor lockedAt.          *)
(***************************************************************************)
killRun(p) ==
  /\ procs[p].task # "" /\ RunsTask(p, procs[p].task)
  /\ procs' = [procs EXCEPT ![p] = IdleProc]
  /\ UNCHANGED <<dbVars, now, signerConfigured, tasks, calls>>

\* the steps of a tick and of the calls it makes
RunStep(p) ==
  \/ SchedulerStep(p)
  \/ paymentRequiredLedger(p) \/ fulfilRequest(p) \/ fulfilLedger(p)
  \/ issueSessionLedger(p)
  \/ loadRequest(p) \/ checkSession(p) \/ submitTransfer(p)
  \/ createPayment(p) \/ updateRequest(p) \/ incrementInPayment(p)
  \/ getBalance(p)
  \/ pauseRead(p) \/ pauseWrite(p) \/ pausedLedger(p) \/ lowLedger(p)
  \/ resumeRead(p)
  \/ confirmedLedger(p) \/ submitFacilitatorVerification(p)
  \/ catchLedger(p) \/ catchCreate(p)
  \/ respond(p)

\* ticks one after the other at one time of the clock, each of which may die
CancelNext ==
  \E p \in Procs :
    \/ runSchedulerTick(p) /\ calls < MaxTicks /\ \A q \in Procs : Idle(q)
    \/ RunStep(p)
    \/ killRun(p)

\* a tick that is not killed goes on: the event loop runs every continuation
SpecCancel ==
  InitScheduler /\ [][CancelNext]_vars /\ WF_vars(\E p \in Procs : RunStep(p))

(***************************************************************************)
(* A tick and the fail route: POST to the fail route names any stored      *)
(* request, the scheduler's own included, while a tick runs.               *)
(***************************************************************************)
RunFailNext ==
  \E p \in Procs :
    \/ runSchedulerTick(p) /\ \A q \in Procs : Idle(q)
    \/ RunStep(p)
    \/ markRequestFailed(p) \/ failedLedger(p)

SpecRunFail == InitScheduler /\ [][RunFailNext]_vars

(***************************************************************************)
(* Properties                                                              *)
(***************************************************************************)
\* no call is between two awaits
Quiescent == \A p \in Procs : procs[p].pc \in {"idle", "done"}

TransfersOf(r) == {chain[i].sig : i \in {j \in 1..Len(chain) : chain[j].requestId = r}}

ConfirmedPaymentsOf(r) ==
  {i \in PaymentIds : payments[i].requestId = r /\ payments[i].status = "CONFIRMED"}

\* C1: for every request, whatever the interleaving of the executePayment
\* calls on it, at most one transfer is sent to the chain and at most one
\* Payment row of the request is CONFIRMED.
C1_ExactlyOneConfirmation ==
  \A r \in ReqIds :
    /\ Cardinality(TransfersOf(r)) <= 1
    /\ Cardinality(ConfirmedPaymentsOf(r)) <= 1

\* C2: in every reachable state every CONFIRMED Payment has a confirmedAt and
\* its request is PAID or FULFILLED with paymentHash equal to the payment's
\* txHash.
C2_ConfirmedPaymentOwnsRequest ==
  \A i \in PaymentIds :
    payments[i].status = "CONFIRMED" =>
      /\ payments[i].confirmedAt # "null"
      /\ requests[payments[i].requestId].status \in {"PAID", "FULFILLED"}
      /\ requests[payments[i].requestId].paymentHash = payments[i].txHash

\* the moves the request lifecycle allows
AllowedRequestMove(old, new) ==
  \/ old = new
  \/ old = "NONE" /\ new = "PAYMENT_REQUIRED"
  \/ old = "PAYMENT_REQUIRED" /\ new = "PAID"
  \/ old = "PAID" /\ new = "FULFILLED"
  \/ old \in {"PAYMENT_REQUIRED", "PAID"} /\ new = "FAILED"

\* C3: a request's status only moves PAYMENT_REQUIRED -> PAID -> FULFILLED or
\* from a non-terminal status to FAILED; a FULFILLED or FAILED request never
\* changes status again, whatever call is made or was in flight.
C3_RequestStatusMonotone ==
  [][\A r \in ReqIds : AllowedRequestMove(requests[r].status, requests'[r].status)]_vars

\* C4: no two Payment rows share a txHash.
C4_TxHashUnique ==
  \A i, j \in PaymentIds : i # j => payments[i].txHash # payments[j].txHash

\* C4 witness: two Payment rows are stored, one of them under a synthetic
\* hash, and an insert under a txHash already taken has been refused.
C4_Witness ==
  /\ Len(payments) >= 2
  /\ \E i \in PaymentIds : payments[i].status = "FAILED" /\ payments[i].txHash \in SynthHashes
  /\ \E i \in PaymentIds : payments[i].failureCode = "P2002"

\* C5: once the ingest of a LOW snapshot is over, payments are paused for
\* LOW_BALANCE and ensurePaymentsActive fails, until an OK snapshot is
\* recorded: with every ingest over and a LOW snapshot the last one
\* recorded, the gate is closed.
C5_LowBalanceKeepsPaused ==
  (Quiescent /\ snapshots # <<>> /\ snapshots[Len(snapshots)] = "LOW") =>
    /\ systemState.paymentsPaused
    /\ systemState.pauseReason = "LOW_BALANCE"
    /\ ~PaymentsActive

\* the step that is the call executePayment(p) made by a caller
ExecuteCalled(p) ==
  /\ procs[p].pc = "idle"
  /\ procs'[p].pc # "idle"
  /\ procs'[p].op = "executePayment"

\* C6: executePayment called while payments are paused fails with the 503
\* error that carries the pause reason and has no other effect: the call is
\* over, and no table, event or chain transfer has changed.
C6_PausedExecuteOnlyFails ==
  [][\A p \in Procs :
       (ExecuteCalled(p) /\ systemState.paymentsPaused) =>
         /\ procs'[p].pc = "done"
         /\ procs'[p].res = "error"
         /\ procs'[p].status = 503
         /\ procs'[p].reason = systemState.pauseReason
         /\ UNCHANGED dbVars]_vars

\* C6 witness: payments are paused for LOW_BALANCE and an executePayment call
\* on a request still in PAYMENT_REQUIRED has just failed with 503.
C6_Witness ==
  \E p \in Procs :
    /\ procs[p].op = "executePayment"
    /\ procs[p].pc = "done"
    /\ procs[p].status = 503
    /\ procs[p].reason = "LOW_BALANCE"
    /\ systemState.paymentsPaused
    /\ requests[procs[p].req].status = "PAYMENT_REQUIRED"

\* C7: signaturesUsed never exceeds maxSignatures.
C7_UsageWithinLimit ==
  \A s \in SessIds :
    SessionExists(s) => sessions[s].signaturesUsed <= sessions[s].maxSignatures

ConfirmedTransfersUnder(s) ==
  {i \in 1..Len(chain) : chain[i].sessionId = s /\ chain[i].confirmed}

\* C8: every transfer sent under a session is sent while that session is
\* ACTIVE, not expired and below its limit, and every transfer sent and
\* confirmed under a session adds exactly one to its signaturesUsed.
C8_SubmissionUnderActiveSession ==
  /\ \A i \in 1..Len(chain) : chain[i].sessionId # 0 => chain[i].sessionActive
  /\ Quiescent =>
       \A s \in SessIds :
         SessionExists(s) =>
           sessions[s].signaturesUsed = Cardinality(ConfirmedTransfersUnder(s))

\* C9: every session with signaturesUsed = maxSignatures is EXHAUSTED or
\* REVOKED.
C9_FullSessionIsClosed ==
  \A s \in SessIds :
    (SessionExists(s) /\ sessions[s].signaturesUsed = sessions[s].maxSignatures) =>
      sessions[s].status \in {"EXHAUSTED", "REVOKED"}

\* C10: a REVOKED session stays REVOKED under every later call, and an
\* EXPIRED session becomes ACTIVE again only by a refreshSession call.
C10_SessionStatusNeverGoesBack ==
  [][\A s \in SessIds :
       /\ sessions[s].status = "REVOKED" => sessions'[s].status = "REVOKED"
       /\ (sessions[s].status = "EXPIRED" /\ sessions'[s].status = "ACTIVE") =>
            \E p \in Procs : procs[p].pc = "idle" /\ procs'[p].op = "refreshSession"]_vars

\* ledger entries of the callback handler, by event
CallbackEntries(event) == {i \in 1..Len(ledger) : ledger[i].event = event}

\* the bodies of the callbacks received so far
ReceivedBodies == {ledger[i].metadata : i \in CallbackEntries("facilitator-callback-received")}

\* the callbacks that were applied: they passed the signature check and
\* found their payment, and wrote their entry
Applications ==
  CallbackEntries("facilitator-callback")
    \cup CallbackEntries("facilitator-callback-duplicate")

\* every callback so far carried the body b, none was answered 401 or 404,
\* and at least one was applied
OnlyBody(b) ==
  /\ ReceivedBodies = {b}
  /\ CallbackEntries("facilitator-callback-invalid-signature") = {}
  /\ CallbackEntries("facilitator-callback-payment-missing") = {}
  /\ Applications # {}

\* the payment row as one application of the body b leaves it
AppliedOnce(b) ==
  LET row == payments[PaymentByHash(b[1])] IN
    /\ row.status = TargetStatus(b[2])
    /\ row.failureCode = DesiredFailureCode(b[2], b[3])
    /\ b[2] = "confirmed" => row.confirmedAt = "set"

\* C11: when one body (txHash, status, reason) is applied any number of
\* times, one after the other or together, the Payment ends as one
\* application leaves it, at most one facilitator-callback entry is written
\* and every other application writes a facilitator-callback-duplicate entry
\* (an application is known by the entry it wrote, see Applications).
C11_CallbackIdempotent ==
  \A h \in CallbackHashes, status \in {"confirmed", "rejected"}, reason \in CallbackReasons :
    (Quiescent /\ OnlyBody(BodyHash(h, status, reason))) =>
      /\ AppliedOnce(BodyHash(h, status, reason))
      /\ Cardinality(CallbackEntries("facilitator-callback")) <= 1

\* the facilitator submit of payment row i failed
SubmitFailedFor(i) ==
  \E k \in 1..Len(ledger) :
    ledger[k].event = "facilitator-submit-failed" /\ ledger[k].paymentId = i

\* what the catch block of executePayment wrote for a failed submit
SubmitFailureRecorded ==
  \/ \E i \in PaymentIds : payments[i].failureCode = "facilitator failed"
  \/ \E k \in 1..Len(ledger) :
       /\ ledger[k].category = "PAYMENT" /\ ledger[k].event = "failed"
       /\ ledger[k].metadata = <<"facilitator failed">>

\* C12: an executePayment whose transfer was confirmed and recorded and
\* whose facilitator submit failed returns confirmed with no error: the
\* Payment is CONFIRMED, the request PAID, the facilitator-submit-failed
\* entry is in the ledger, and neither a FAILED Payment row nor a
\* PAYMENT failed entry is written for that failure.
C12_SubmitFailureKeepsPayment ==
  /\ \A p \in Procs :
       (procs[p].op = "executePayment" /\ procs[p].pc = "done"
          /\ SubmitFailedFor(procs[p].pay)) =>
         /\ procs[p].res = "confirmed"
         /\ procs[p].err = ""
         /\ payments[procs[p].pay].status = "CONFIRMED"
         /\ requests[procs[p].req].status = "PAID"
  /\ ~SubmitFailureRecorded

\* the failure the catch block of executePayment records when the insert of
\* the CONFIRMED row was refused by the unique index on txHash
UniquenessFailureRecorded ==
  \/ \E i \in PaymentIds : payments[i].status = "FAILED" /\ payments[i].failureCode = "P2002"
  \/ \E k \in 1..Len(ledger) :
       /\ ledger[k].category = "PAYMENT" /\ ledger[k].event = "failed"
       /\ ledger[k].metadata = <<"P2002">>

\* C13: when the insert of the Payment hits the uniqueness of txHash the
\* executor reconciles and does not fail: no second Payment row and no
\* PAYMENT failed entry is written for that error, and the call does not
\* take the failure path with it.
C13_DuplicateInsertReconciles ==
  /\ ~UniquenessFailureRecorded
  /\ \A p \in Procs :
       (procs[p].op = "executePayment" /\ procs[p].pc \in {"catchLedger", "catchCreate"}) =>
         procs[p].err # "P2002"

\* the REQUEST ledger entries of request r with that event
RequestEntries(r, event) ==
  {k \in 1..Len(ledger) :
     ledger[k].category = "REQUEST" /\ ledger[k].requestId = r /\ ledger[k].event = event}

\* the REQUEST ledger entries of request r that name its move to PAID: those
\* that name no other transition
PaidEntries(r) ==
  {k \in 1..Len(ledger) :
     /\ ledger[k].category = "REQUEST" /\ ledger[k].requestId = r
     /\ ledger[k].event \notin {"payment-required", "data-fulfilled", "failed"}}

\* C14: every status transition of a request has exactly one REQUEST ledger
\* entry naming it: never more than one payment-required, data-fulfilled or
\* failed entry for a request, and once no call is in flight one entry for
\* the creation and one for each status the request went through.
C14_OneLedgerEntryPerTransition ==
  \A r \in ReqIds :
    /\ Cardinality(RequestEntries(r, "payment-required")) <= 1
    /\ Cardinality(RequestEntries(r, "data-fulfilled")) <= 1
    /\ Cardinality(RequestEntries(r, "failed")) <= 1
    /\ (Quiescent /\ RequestExists(r)) =>
         /\ Cardinality(RequestEntries(r, "payment-required")) = 1
         /\ requests[r].status \in {"PAID", "FULFILLED"} => Cardinality(PaidEntries(r)) = 1
         /\ requests[r].status = "FULFILLED" =>
              Cardinality(RequestEntries(r, "data-fulfilled")) = 1

\* C15: the payload stored for a FULFILLED request is the catalog payload of
\* the request's own endpoint, whatever endpoint argument came with its id.
C15_PayloadOfOwnEndpoint ==
  \A r \in ReqIds :
    requests[r].status = "FULFILLED" =>
      requests[r].responseData = Payload(requests[r].endpoint)

\* C16: a paymentHash that is set is never changed by a later step.
C16_PaymentHashImmutable ==
  [][\A r \in ReqIds :
       requests[r].paymentHash # NoHash =>
         requests'[r].paymentHash = requests[r].paymentHash]_vars

\* C17: pauseReason is set if and only if paymentsPaused is true.
C17_PauseReasonIffPaused ==
  (systemState.pauseReason # "") <=> systemState.paymentsPaused

\* C17 witness: payments were paused, resumed, and are paused again for
\* LOW_BALANCE.
C17_Witness ==
  /\ systemState.paymentsPaused
  /\ systemState.pauseReason = "LOW_BALANCE"
  /\ \E k \in 1..Len(ledger) : ledger[k].event = "payments-resumed"

\* the step that is the call getActiveSession(id) made by a caller
GetActiveCalled(p) ==
  /\ procs[p].pc = "idle"
  /\ procs'[p].pc # "idle"
  /\ procs'[p].op = "getActiveSession"

\* the session is ACTIVE, the clock is before its expiry and its usage is
\* below its limit
Usable(s) ==
  /\ SessionExists(s)
  /\ sessions[s].status = "ACTIVE"
  /\ now < sessions[s].expiresAt
  /\ sessions[s].signaturesUsed < sessions[s].maxSignatures

\* C18: getActiveSession(id) returns the session if and only if it is
\* ACTIVE, the clock is before expiresAt and signaturesUsed < maxSignatures;
\* it goes on to write EXPIRED or EXHAUSTED only for an ACTIVE session that
\* is past expiry or at its limit, and in every other case returns absent
\* at once, the session unchanged.
C18_GetActiveSession ==
  [][\A p \in Procs :
       GetActiveCalled(p) =>
         LET s == procs'[p].sess
             active == SessionExists(s) /\ sessions[s].status = "ACTIVE"
         IN /\ sessions' = sessions
            /\ (procs'[p].pc = "done" /\ procs'[p].res = "session") <=> Usable(s)
            /\ (procs'[p].pc = "markInactive") <=> (active /\ ~Usable(s))
            /\ (procs'[p].pc = "done" /\ procs'[p].res = "null") <=> ~active]_vars

\* a step of the executePayment call p, its first one included
ExecuteStep(p) ==
  /\ procs'[p] # procs[p]
  /\ procs'[p].op = "executePayment"

\* C19: with a session of one signature, an executePayment under it that
\* returns confirmed leaves the session EXHAUSTED; and an executePayment on
\* a PAYMENT_REQUIRED request under a session that is EXHAUSTED writes
\* nothing (no Payment row, no ledger entry, the request unchanged) on its
\* way to the session check, where it fails with 401.
C19_SecondPaymentRefused ==
  /\ [](\A p \in Procs :
         (procs[p].op = "executePayment" /\ procs[p].pc = "done"
            /\ procs[p].res = "confirmed" /\ procs[p].sess # 0
            /\ SessionExists(procs[p].sess)) =>
           sessions[procs[p].sess].status = "EXHAUSTED")
  /\ [][\A p \in Procs :
         (ExecuteStep(p) /\ procs'[p].sess # 0 /\ SessionExists(procs'[p].sess)
            /\ sessions[procs'[p].sess].status = "EXHAUSTED"
            /\ procs[p].pc \in {"idle", "loadRequest", "session"}
            /\ PaymentsActive
            /\ requests[procs'[p].req].status = "PAYMENT_REQUIRED") =>
           /\ UNCHANGED dbVars
           /\ procs[p].pc = "idle" => procs'[p].pc = "loadRequest"
           /\ procs[p].pc = "loadRequest" => procs'[p].pc = "session"
           /\ procs[p].pc = "session" =>
                /\ procs'[p].pc = "done" /\ procs'[p].res = "error"
                /\ procs'[p].status = 401]_vars

\* C19 witness: the first payment under the session is stored and the
\* session is EXHAUSTED with one signature used; a second executePayment
\* under it, on another request still in PAYMENT_REQUIRED, has failed with 401.
C19_Witness ==
  \E p \in Procs :
    /\ procs[p].op = "executePayment" /\ procs[p].pc = "done" /\ procs[p].status = 401
    /\ procs[p].sess # 0
    /\ sessions[procs[p].sess].status = "EXHAUSTED"
    /\ sessions[procs[p].sess].signaturesUsed = 1
    /\ requests[procs[p].req].status = "PAYMENT_REQUIRED"
    /\ Len(payments) = 1 /\ payments[1].status = "CONFIRMED"
    /\ payments[1].requestId # procs[p].req

\* the payment-status events with status CONFIRMED of payment row i
ConfirmedEvents(i) ==
  {k \in 1..Len(events) : events[k].paymentId = i /\ events[k].status = "CONFIRMED"}

\* a step of the callback call p, which carries status confirmed
ConfirmedCallbackStep(p, pc) ==
  /\ procs[p].op = "facilitatorCallback" /\ procs[p].arg = "confirmed"
  /\ procs[p].pc = pc
  /\ procs'[p] # procs[p]

C21_SignatureVerification ==
  [][\A p \in Procs :
       /\ \A h \in CallbackHashes, status \in {"confirmed", "rejected"},
             reason \in CallbackReasons, secret \in Secrets,
             signature \in SignatureHeaders :
            (CanCall(p) /\ callbackReceived(p, h, status, reason, secret, signature))
              => procs'[p].pc =
                   IF secret # NoSecret /\ signature = Hmac(secret, <<h, status, reason>>)
                   THEN "callbackFind" ELSE "callbackInvalid"
       /\ (procs[p].op = "facilitatorCallback" /\ procs[p].pc # "done"
           /\ procs'[p].pc = "done"
           /\ procs[p].pc \in {"callbackInvalid", "callbackRangeError"})
            => procs'[p].status = 401 /\ payments' = payments]_vars

\* the matching rows of the whole ledger, newest first
AllMatching(filter) == NewestFirst(filter, Len(ledger))

\* C22: following the cursors of GET /ledger from no cursor until the cursor is
\* null yields every matching entry exactly once, newest first, and a page's
\* nextCursor is non-null exactly when matching entries remain after it.
C22_PaginationComplete ==
  \A p \in Procs :
    (procs[p].op = "queryLedger" /\ procs[p].sig # <<>>) =>
      /\ procs[p].sig = Take(AllMatching(procs[p].arg), Len(procs[p].sig))
      /\ (procs[p].pc = "page" \/ procs[p].pay # NoCursor)
           <=> Len(procs[p].sig) < Len(AllMatching(procs[p].arg))
      /\ procs[p].pc = "done" => procs[p].sig = AllMatching(procs[p].arg)

\* C23: exportLedger returns the newest min(clamp(limit, 1, 5000), matching)
\* entries; with more than 500 matching entries and limit 5000 it returns more
\* than 500.
C23_ExportSize ==
  \A p \in Procs :
    (procs[p].op = "exportLedger" /\ procs[p].pc = "done") =>
      LET all == AllMatching(procs[p].arg) IN
        /\ procs[p].sig = Take(all, Min(Max(procs[p].sess, 1), ExportCap))
        /\ (Len(all) > PageCap /\ procs[p].sess = ExportCap) => Len(procs[p].sig) > PageCap

AppendStep(p, from, to) ==
  /\ procs[p].op = "appendLedgerEntry"
  /\ procs[p].pc = from /\ procs'[p].pc = to

\* C24: the ledger only grows at its end; a call of appendLedgerEntry that
\* returns has inserted exactly one row and then emitted exactly one
\* ledger-entry event carrying it; a call whose insert fails throws, inserts
\* nothing and emits nothing.
C24_AppendOnlyPublished ==
  [][/\ Len(ledger') >= Len(ledger)
     /\ SubSeq(ledger', 1, Len(ledger)) = ledger
     /\ \A p \in Procs :
          /\ AppendStep(p, "create", "emit") =>
               /\ ledger' = Append(ledger, RowOf(procs[p].arg))
               /\ events' = events
          /\ AppendStep(p, "create", "done") =>
               /\ procs'[p].err # ""
               /\ ledger' = ledger /\ events' = events
          /\ AppendStep(p, "emit", "done") =>
               /\ procs'[p].err = ""
               /\ ledger' = ledger
               /\ ledger[procs[p].pay] = RowOf(procs[p].arg)
               /\ events' = Append(events, LedgerEntryEvent(RowOf(procs[p].arg)))
          /\ (procs[p].op = "appendLedgerEntry" /\ procs[p].pc # "done"
              /\ procs'[p].pc = "done" /\ procs'[p].err = "")
               => procs[p].pc = "emit"
     /\ (ledger' # ledger \/ events' # events) =>
          \E p \in Procs : AppendStep(p, "create", "emit") \/ AppendStep(p, "emit", "done")]_vars

\* calls of appendLedgerEntry have returned and one has failed
C24_Witness ==
  /\ Len(events) >= 2
  /\ \E p \in Procs : procs[p].op = "appendLedgerEntry" /\ procs[p].pc = "done"
                      /\ procs[p].err = "create failed"

\* the times at which a task is observed again: a second later, a tick later
LaterTimes == {now + 1} \cup {now + d : d \in TimeSteps}

\* C25: with lastSuccessAt, valueScore, cost and freshness window fixed, the
\* score of a task observed later is never smaller, and the score of a task
\* that never succeeded does not depend on the time.
C25_ScoreNonDecreasing ==
  \A e \in Endpoints : \A t1 \in {now} \cup LaterTimes, t2 \in LaterTimes :
    t1 < t2 =>
      /\ computeTaskScore(tasks[e], t2) >= computeTaskScore(tasks[e], t1)
      /\ tasks[e].lastSuccessAt = NoTime =>
           computeTaskScore(tasks[e], t2) = computeTaskScore(tasks[e], t1)

\* a task that succeeded is scored again by a later tick, higher than at the
\* run that succeeded
C25_Witness ==
  \E p \in Procs, e \in Endpoints :
    /\ procs[p].pc = "lockTask" /\ procs[p].task = e
    /\ tasks[e].lastSuccessAt # NoTime /\ tasks[e].lastSuccessAt < procs[p].at
    /\ procs[p].score > computeTaskScore(tasks[e], tasks[e].lastSuccessAt)

\* the AUTONOMY entries of a task, by event
TaskEntries(e, event) ==
  {i \in 1..Len(ledger) : /\ ledger[i].category = "AUTONOMY"
                          /\ ledger[i].event = event
                          /\ ledger[i].metadata[1] = e}

\* the failed runs of a task since its last successful one
FailuresSinceSuccess(e) ==
  LET last == IF TaskEntries(e, "task-success") = {} THEN 0
              ELSE CHOOSE i \in TaskEntries(e, "task-success") :
                     \A j \in TaskEntries(e, "task-success") : j <= i
  IN Cardinality({i \in TaskEntries(e, "task-failure") : i > last})

\* C26: after k >= 1 consecutive failed runs of a task since its last success
\* failureCount is k and the task is next eligible min(backoffSeconds *
\* 2^(k-1), MAX_BACKOFF) seconds after the run; with base 30 the delays are
\* 30, 60, 120, 240, and no delay exceeds 900.
C26_BackoffProgression ==
  /\ <<calculateBackoffSeconds(30, 1), calculateBackoffSeconds(30, 2),
       calculateBackoffSeconds(30, 3), calculateBackoffSeconds(30, 4)>>
       = <<30, 60, 120, 240>>
  /\ \A base \in {30, 45, 120}, k \in 1..MaxFailures :
       /\ calculateBackoffSeconds(base, k) <= 900
       /\ calculateBackoffSeconds(base, k) =
            IF base * 2 ^ (k - 1) < 900 THEN base * 2 ^ (k - 1) ELSE 900
  /\ (\A p \in Procs : Idle(p)) =>
       \A e \in Endpoints :
         LET k == FailuresSinceSuccess(e) IN
           k >= 1 =>
             /\ tasks[e].failureCount = k
             /\ tasks[e].nextRunAt =
                  tasks[e].lastRunAt
                    + (IF BackoffSeconds(e) * 2 ^ (k - 1) < 900
                       THEN BackoffSeconds(e) * 2 ^ (k - 1) ELSE 900)

\* a task has failed three times in a row
C26_Witness ==
  /\ \A p \in Procs : Idle(p)
  /\ \E e \in Endpoints : FailuresSinceSuccess(e) = 3 /\ tasks[e].status = "BACKOFF"

\* a step of the tick of p that leaves the place pc
TickStep(p, pc) ==
  /\ procs[p].op = "runSchedulerTick"
  /\ procs[p].pc = pc /\ procs'[p].pc # pc

\* the row markSuccess leaves
SuccessRow(row, e, at) ==
  /\ row.status = "IDLE" /\ row.lockedAt = NoTime
  /\ row.failureCount = 0 /\ row.lastError = ""
  /\ row.lastSuccessAt = at
  /\ row.nextRunAt = at + row.freshnessSeconds

\* C27: a successful run, whatever failures came before, leaves the task IDLE
\* and unlocked with failureCount 0, no lastError, lastSuccessAt the time of
\* the run and nextRunAt that time plus the freshness window, and appends one
\* AUTONOMY task-success entry.
C27_SuccessResetsTask ==
  [][\A p \in Procs :
       LET e == procs[p].task IN
       /\ TickStep(p, "markSuccess") =>
            /\ SuccessRow(tasks'[e], e, procs[p].at)
            /\ ledger' = ledger
       /\ TickStep(p, "successLedger") =>
            /\ tasks' = tasks
            /\ Len(ledger') = Len(ledger) + 1
            /\ TaskEntries(e, "task-success")' = TaskEntries(e, "task-success") \cup {Len(ledger')}
       /\ (TickStep(p, "broadcast") /\ procs[p].res = "success") =>
            /\ SuccessRow(tasks'[e], e, procs[p].at)
            /\ ledger' = ledger
            /\ ledger[Len(ledger)].event = "task-success"
       /\ (procs[p].op = "runSchedulerTick" /\ procs[p].pc = "afterPayment"
           /\ procs[p].err = "" /\ procs[p].res = "confirmed")
            => procs'[p].pc \in {"afterPayment", "markSuccess", "fulfil",
                                 "paymentRequiredLedger"}]_vars

\* a run has succeeded on a task that had failed before
C27_Witness ==
  \E p \in Procs :
    /\ procs[p].op = "runSchedulerTick" /\ procs[p].pc = "done"
    /\ procs[p].res = "success"
    /\ TaskEntries(procs[p].task, "task-failure") # {}
    /\ tasks[procs[p].task].failureCount = 0

\* the tables and streams a run of a task writes
TaskEffects == <<tasks, requests, payments, sessions, ledger, events, chain>>

\* C28: a tick that finds payments paused selects no task: it ends at once,
\* no AutonomyTask, request or Payment is written, and it leaves no
\* task-success entry and no payment-status event.
C28_PausedTickSelectsNothing ==
  [][\A p \in Procs :
       /\ (Idle(p) /\ procs'[p].op = "runSchedulerTick" /\ systemState.paymentsPaused) =>
            /\ procs'[p].pc = "done" /\ procs'[p].task = ""
            /\ procs'[p].err = "Payments temporarily paused"
            /\ TaskEffects' = TaskEffects
       /\ (procs[p].op = "runSchedulerTick" /\ procs[p].pc = "done"
           /\ procs[p].err = "Payments temporarily paused" /\ procs[p].task = ""
           /\ procs'[p] # procs[p]) =>
            /\ Idle(p)'
            /\ TaskEffects' = TaskEffects]_vars

\* a tick has been skipped although a task was due
C28_Witness ==
  \E p \in Procs :
    /\ procs[p].op = "runSchedulerTick" /\ procs[p].pc = "done"
    /\ procs[p].err = "Payments temporarily paused" /\ procs[p].task = ""
    /\ systemState.paymentsPaused
    /\ Candidates(now) # {}

\* the row handleFailure leaves, given the row before
FailureRow(row, before) ==
  /\ row.status = "BACKOFF" /\ row.lockedAt = NoTime
  /\ row.failureCount = before.failureCount + 1
  /\ row.lastError # ""

\* the tick of p holds a failure of createOrGetRequest or of executePayment
RunFailed(p) ==
  /\ procs[p].op = "runSchedulerTick"
  /\ \/ procs[p].pc \in {"afterRequest", "afterPayment"} /\ procs[p].err # ""
     \/ procs[p].pc = "afterPayment" /\ procs[p].res # "confirmed"

EndpointRank(e) == IF e = "knowledge" THEN 1 ELSE 2

\* eligible as the specification has it
EligibleTask(row, t) ==
  /\ row.status \notin {"NONE", "RUNNING"}
  /\ row.lockedAt = NoTime
  /\ row.nextRunAt <= t

\* C30: the task a tick moves to RUNNING is eligible (not RUNNING, not locked,
\* due), its score is at least MIN_RUN_SCORE and the highest among the
\* eligible tasks, and among eligible tasks of that score it is the one with
\* the smallest endpoint tag; a tick starts at most one task.
C30_BestEligibleTaskRuns ==
  [][\A p \in Procs :
       /\ TickStep(p, "findTasks") /\ procs'[p].pc = "lockTask" =>
            LET e == procs'[p].task
                t == procs[p].at
            IN /\ EligibleTask(tasks[e], t)
               /\ procs'[p].score = computeTaskScore(tasks[e], t)
               /\ procs'[p].score >= MinScoreToRun
               /\ \A f \in Endpoints :
                    EligibleTask(tasks[f], t) =>
                      \/ computeTaskScore(tasks[f], t) < procs'[p].score
                      \/ /\ computeTaskScore(tasks[f], t) = procs'[p].score
                         /\ EndpointRank(e) <= EndpointRank(f)
       /\ TickStep(p, "lockTask") =>
            /\ tasks'[procs[p].task].status = "RUNNING"
            /\ \A f \in Endpoints \ {procs[p].task} : tasks'[f] = tasks[f]
       /\ (procs[p].op = "runSchedulerTick" /\ procs[p].pc # "lockTask") =>
            \A f \in Endpoints : tasks'[f].status = "RUNNING" => tasks[f].status = "RUNNING"]_vars

\* C31: no AutonomyTask is executed by two scheduler runs at the same time:
\* of two ticks that both loaded the same eligible task, at most one makes
\* it RUNNING and executes it.
C31_TaskLockExclusive ==
  \A e \in Endpoints : \A p, q \in Procs :
    (RunsTask(p, e) /\ RunsTask(q, e)) => p = q

\* C32: no task stays RUNNING forever: a task that a run made RUNNING is
\* later IDLE or BACKOFF with its lock cleared, also when the run is
\* cancelled or dies after taking the lock.
C32_RunningEnds ==
  \A e \in Endpoints :
    (tasks[e].status = "RUNNING") ~>
      (tasks[e].status \in {"IDLE", "BACKOFF"} /\ tasks[e].lockedAt = NoTime)

\* the changes of status a Payment may make
AllowedPaymentMove(from, to) ==
  <<from, to>> \in {<<"PENDING", "CONFIRMED">>, <<"PENDING", "FAILED">>,
                    <<"FAILED", "CONFIRMED">>}

\* C33: the status of a Payment changes only PENDING -> CONFIRMED, PENDING ->
\* FAILED, or FAILED -> CONFIRMED; a CONFIRMED Payment keeps its status
\* through every executePayment call and facilitator callback.
C33_PaymentStatusMoves ==
  [][\A i \in 1..Len(payments) :
       /\ i <= Len(payments')
       /\ payments'[i].status # payments[i].status =>
            AllowedPaymentMove(payments[i].status, payments'[i].status)]_vars

\* the indexes of the ledger entries with the given event between i and j
EntriesBetween(event, i, j) ==
  {k \in 1..Len(ledger) : i < k /\ k < j /\ ledger[k].event = event}

\* C34: pause and resume are logged once per episode: between two
\* consecutive payments-resumed entries (or from the start) the ledger holds
\* at most one payments-paused entry, and between two consecutive
\* payments-paused entries exactly one payments-resumed entry.
C34_PauseResumeOncePerEpisode ==
  /\ \A j \in 1..Len(ledger) : \A i \in 0..(j - 1) :
        (/\ ledger[j].event = "payments-resumed"
         /\ i > 0 => ledger[i].event = "payments-resumed"
         /\ EntriesBetween("payments-resumed", i, j) = {}) =>
          Cardinality(EntriesBetween("payments-paused", i, j)) <= 1
  /\ \A j \in 1..Len(ledger) : \A i \in 1..(j - 1) :
        (/\ ledger[j].event = "payments-paused"
         /\ ledger[i].event = "payments-paused"
         /\ EntriesBetween("payments-paused", i, j) = {}) =>
          Cardinality(EntriesBetween("payments-resumed", i, j)) = 1

\* a step of the executePayment call p after it found its request in a
\* status other than PAYMENT_REQUIRED
NoopStep(p) ==
  /\ procs[p].op = "executePayment"
  /\ procs[p].res \in {"already-fulfilled", "noop"}
  /\ procs'[p] # procs[p]

\* C35: executePayment on a request that is not in PAYMENT_REQUIRED answers
\* already-fulfilled (FULFILLED) or noop (PAID, FAILED) with the stored
\* paymentHash, and changes nothing: no transfer, no Payment row, no ledger
\* entry, no payment-status event, no session usage.
C35_NoopChangesNothing ==
  [][\A p \in Procs :
       /\ (/\ procs[p].op = "executePayment" /\ procs[p].pc = "loadRequest"
            /\ procs'[p] # procs[p]
            /\ requests[procs[p].req].status \in {"FULFILLED", "PAID", "FAILED"}) =>
             /\ procs'[p].res = IF requests[procs[p].req].status = "FULFILLED"
                                THEN "already-fulfilled" ELSE "noop"
             /\ procs'[p].sig = requests[procs[p].req].paymentHash
             /\ UNCHANGED <<requests, payments, sessions, ledger, events, chain>>
       /\ NoopStep(p) =>
             UNCHANGED <<requests, payments, sessions, ledger, events, chain>>]_vars

\* the errors of building, submitting or confirming the transfer
TransferErrors == {"send failed", "confirm failed"}

\* a step of the executePayment call p at pc, on its way out with such an error
TransferFailedStep(p, pc) ==
  /\ procs[p].op = "executePayment" /\ procs[p].pc = pc
  /\ procs[p].err \in TransferErrors
  /\ procs'[p] # procs[p]

\* C36: when building, submitting or confirming the transfer fails,
\* executePayment appends one PAYMENT failed entry, then inserts one Payment
\* row with status FAILED, a fresh synthetic txHash and the error message as
\* failureCode, emits one payment-status FAILED event and rethrows the
\* error; it leaves the request as it is (PAYMENT_REQUIRED, no paymentHash)
\* and inserts no CONFIRMED Payment.
C36_TransferFailureRecorded ==
  [][\A p \in Procs :
       /\ (/\ procs[p].op = "executePayment" /\ procs[p].pc = "submit"
            /\ procs'[p].pc = "catchLedger") =>
             /\ procs'[p].err \in TransferErrors
             /\ requests[procs[p].req].status = "PAYMENT_REQUIRED"
                  => requests[procs[p].req].paymentHash = NoHash
             /\ UNCHANGED <<requests, payments, ledger, events>>
       /\ TransferFailedStep(p, "catchLedger") =>
             /\ Len(ledger') = Len(ledger) + 1
             /\ SubSeq(ledger', 1, Len(ledger)) = ledger
             /\ ledger'[Len(ledger')].category = "PAYMENT"
             /\ ledger'[Len(ledger')].event = "failed"
             /\ ledger'[Len(ledger')].requestId = procs[p].req
             /\ ledger'[Len(ledger')].metadata = <<procs[p].err>>
             /\ procs'[p].pc = "catchCreate"
             /\ UNCHANGED <<requests, payments, events>>
       /\ (TransferFailedStep(p, "catchCreate") /\ payments' # payments) =>
             /\ payments' = Append(payments, payments'[Len(payments')])
             /\ payments'[Len(payments')].status = "FAILED"
             /\ payments'[Len(payments')].requestId = procs[p].req
             /\ payments'[Len(payments')].failureCode = procs[p].err
             /\ payments'[Len(payments')].txHash \in SynthHashes
             /\ ~HashTaken(payments'[Len(payments')].txHash)
             /\ events' = Append(events, events'[Len(events')])
             /\ events'[Len(events')].status = "FAILED"
             /\ events'[Len(events')].requestId = procs[p].req
             /\ events'[Len(events')].paymentId = Len(payments')
             /\ procs'[p].pc = "done" /\ procs'[p].res = "error"
             /\ procs'[p].err = procs[p].err
             /\ UNCHANGED <<requests, ledger>>
       /\ (TransferFailedStep(p, "catchCreate") /\ payments' = payments) =>
             /\ \E i \in PaymentIds : payments[i].txHash \in SynthHashes
             /\ procs'[p].pc = "done" /\ procs'[p].res = "error"
             /\ UNCHANGED <<requests, ledger, events>>]_vars

\* C36 witness: an executePayment whose transfer was sent and not confirmed
\* is over: the ledger holds its PAYMENT failed entry, the Payment table its
\* FAILED row under a synthetic hash, the bus its FAILED event, and the
\* request is still in PAYMENT_REQUIRED with no paymentHash.
C36_Witness ==
  \E p \in Procs :
    /\ procs[p].op = "executePayment" /\ procs[p].pc = "done"
    /\ procs[p].err = "confirm failed"
    /\ requests[procs[p].req].status = "PAYMENT_REQUIRED"
    /\ requests[procs[p].req].paymentHash = NoHash
    /\ \E i \in PaymentIds :
         /\ payments[i].status = "FAILED" /\ payments[i].requestId = procs[p].req
         /\ payments[i].failureCode = "confirm failed"
         /\ payments[i].txHash \in SynthHashes
    /\ \E k \in 1..Len(ledger) :
         ledger[k].event = "failed" /\ ledger[k].metadata = <<"confirm failed">>
    /\ \E k \in 1..Len(events) :
         events[k].status = "FAILED" /\ events[k].requestId = procs[p].req
    /\ \A i \in PaymentIds : payments[i].status # "CONFIRMED"

\* C37: createOrGetRequest called with an existingId that matches no stored
\* request fails with RequestNotFound (404) and creates no request and no
\* ledger entry.
C37_UnknownIdNotFound ==
  [][\A p \in Procs :
       /\ (/\ procs[p].pc = "idle" /\ procs'[p].op = "createOrGetRequest"
            /\ procs'[p].req = 0) =>
             /\ procs'[p].pc = "done" /\ procs'[p].res = "error"
             /\ procs'[p].status = 404
       /\ (/\ procs[p].op = "createOrGetRequest" /\ procs[p].pc = "create"
            /\ procs'[p] # procs[p]) =>
             UNCHANGED <<requests, ledger>>]_vars

\* C38: at the moment executePayment submits a transfer to the chain,
\* SystemState.paymentsPaused is false, whatever balance readings are
\* ingested while the call runs.
C38_NoSubmissionWhilePaused ==
  \A i \in 1..Len(chain) : ~chain[i].paused

\* C39: the scheduler records AUTONOMY task-success for a run only if the
\* request handled in that run is FULFILLED when the run marks success; a
\* request marked FAILED between the payment and the last createOrGetRequest
\* is no success.
C39_SuccessOnlyWhenFulfilled ==
  [][\A p \in Procs :
       (procs[p].op = "runSchedulerTick"
          /\ procs[p].pc \in {"markSuccess", "successLedger"}
          /\ procs'[p] # procs[p]) =>
         requests[procs[p].req].status = "FULFILLED"]_vars

\* C40: every request that is PAID or FULFILLED has a paymentHash, and a
\* Payment row owned by that request carries that hash as its txHash, in
\* every reachable state.
C40_PaidRequestHasPayment ==
  \A r \in ReqIds :
    requests[r].status \in {"PAID", "FULFILLED"} =>
      /\ requests[r].paymentHash # NoHash
      /\ \E i \in PaymentIds :
           payments[i].requestId = r /\ payments[i].txHash = requests[r].paymentHash

\* C40 witness: a request that executePayment paid was fulfilled, and its
\* paymentHash is the txHash of its Payment row.
C40_Witness ==
  \E r \in ReqIds :
    /\ requests[r].status = "FULFILLED"
    /\ requests[r].paymentHash \in Signatures
    /\ \E i \in PaymentIds :
         /\ payments[i].requestId = r /\ payments[i].txHash = requests[r].paymentHash
         /\ payments[i].status = "CONFIRMED"

====
